---------------------------- MODULE Spec2Model ----------------------------
(***************************************************************************)
(* Teardown of a static website: src/deployment-python/cleanup.py.         *)
(*                                                                         *)
(* The program is one thread of control (main and the functions it calls); *)
(* pc is its position.  The object store and the CDN are collaborators:    *)
(* their state (the bucket, its keys, the distributions) is part of the    *)
(* model, and every answer they can give to a call is a choice of the      *)
(* action that models the call.                                            *)
(***************************************************************************)
EXTENDS Integers, Sequences, FiniteSets, TLC

(***************************************************************************)
(* Bounds of the model.                                                    *)
(***************************************************************************)
\* Distributions in the account.
MaxDists == 3
\* Object versions held by a small bucket.
SmallKeys == 2
\* Object versions on the first listing page of a big bucket.
BigPageKeys == 1000
\* Keys on the last listing page of a huge bucket (two full pages before it).
LastPageKeys == 500
\* Seconds one call to the CDN may take: either CdnFastCall or CdnSlowCall.
CdnFastCall == 295
CdnSlowCall == 595
\* Seconds one bulk delete may take: either S3FastRound or S3SlowRound.
S3FastRound == 150
S3SlowRound == 301
\* Seconds one listing call may take, to the whole second: either S3QuickCall
\* or S3SlowRound.
S3QuickCall == 0
\* Seconds of a deployment the clock of deploy.py is followed for, twice over.
DeployHorizon == 1800
\* Other names the operator is asked for, at most, after collisions.
NameRetries == 2
\* Files of the website's directory.
UploadFiles == 2

(***************************************************************************)
(* Program constants.                                                      *)
(***************************************************************************)
POLLING_INTERVAL_SECONDS == 10
CLOUDFRONT_TIMEOUT_SECONDS == 600
S3_DELETE_TIMEOUT_SECONDS == 300
\* The slice taken by objects_to_delete[:1000].
BatchSize == 1000
\* The WaiterConfig of delete_s3_bucket: seconds between polls, polls at most.
Delay == 15
MaxAttempts == 20

\* Python's None, for values that are otherwise strings.
NoneVal == "<None>"
\* A value is truthy when it is neither None nor the empty string.
Truthy(x) == x # NoneVal /\ x # ""

(***************************************************************************)
(* Text.  A line typed by the operator is a sequence of characters, so     *)
(* that strip() and lower() are computed and not assumed.                  *)
(***************************************************************************)
Whitespace == {" ", "\t"}

LowerOf ==
  [c \in {"Y", "E", "S", "N", "O"} |->
     CASE c = "Y" -> "y" [] c = "E" -> "e" [] c = "S" -> "s"
       [] c = "N" -> "n" [] c = "O" -> "o"]

\* str.lower()
Lower(s) == [i \in 1..Len(s) |-> IF s[i] \in DOMAIN LowerOf THEN LowerOf[s[i]] ELSE s[i]]

RECURSIVE LStrip(_)
LStrip(s) == IF s # <<>> /\ Head(s) \in Whitespace THEN LStrip(Tail(s)) ELSE s

RECURSIVE RStrip(_)
RStrip(s) ==
  IF s # <<>> /\ s[Len(s)] \in Whitespace THEN RStrip(SubSeq(s, 1, Len(s) - 1)) ELSE s

\* str.strip()
Strip(s) == RStrip(LStrip(s))

\* The affirmative token of confirm_deletion.
YesToken == <<"y", "e", "s">>

\* What the operator may type at the confirmation prompt.
ConfirmInputs ==
  { <<"y", "e", "s">>, <<"Y", "E", "s">>, <<" ", "y", "e", "s", "\t">>,
    <<"y", " ", "e", "s">>, <<"y", "e", "s", "s">>, <<"n", "o">>, <<>> }

(***************************************************************************)
(* The collaborators' state.                                               *)
(***************************************************************************)
\* The bucket the operator means, and a region other than the default one.
TheBucket == "site-abc"
DefaultRegion == "us-east-1"
OtherRegion == "eu-west-2"

AllDistIds ==
  <<"E1AAAAAAAAAAAA", "E2BBBBBBBBBBBB", "E3CCCCCCCCCCCC", "E4DDDDDDDDDDDD",
    "E5EEEEEEEEEEEE">>
DistIds == {AllDistIds[i] : i \in 1..MaxDists}

\* f"{bucket_name}.s3-website-{region}.amazonaws.com"
TargetOriginDomain(bucket_name, region) ==
  bucket_name \o ".s3-website-" \o region \o ".amazonaws.com"

\* The concurrency token of a distribution at version v.
ETag(v) == "ETAG-" \o ToString(v)

\* The region the store keeps a bucket in, given its location constraint:
\* a bucket of the default region reports no constraint.
RegionOfConstraint(lc) == IF lc \in {NoneVal, ""} THEN DefaultRegion ELSE lc

\* The integers a..b as a sequence.
Range(a, b) == [i \in 1..(b - a + 1) |-> a + i - 1]

\* The elements of a sequence.
Elems(s) == {s[i] : i \in 1..Len(s)}

VARIABLES
  \* ---- object store ----
  bucketExists,        \* the bucket TheBucket exists
  locationConstraint,  \* its LocationConstraint: NoneVal or a region
  keyLayout,           \* which of KeyLayouts the bucket was filled with
  deletedKeys,         \* the keys (versions and delete markers) deleted since
  \* ---- CDN ----
  dists,               \* id -> [origins, enabled, status, version, present]
  \* ---- main ----
  pc,
  bucket_name,
  region,
  cf_info,             \* <<>> for None, or <<id, etag>>
  cloudfront_deleted_successfully,
  bucket_emptied_successfully,
  bucket_deleted_successfully,
  exitCode,            \* NoneVal while running, else "0" or "1"
  \* ---- locals of the function being executed ----
  target_origin_domain,
  found_distribution,
  distribution_count,
  listCursor,          \* distributions the paginator has handed out so far
  pageItems,           \* the rest of the current page of distributions
  typed,               \* the line read by input() in confirm_deletion
  latest_etag,
  elapsed,             \* seconds since the start time of the wait in progress
  objects_to_delete,
  total_objects_found,
  pageCursor,          \* listing pages the paginator has handed out so far
  result,              \* the value the function is about to return: a boolean,
                       \* or in find_cloudfront_for_s3_bucket <<>> or <<id, etag>>
  num_attempts,        \* polls made by the waiter of delete_s3_bucket
  \* ---- what the run has done (observation only) ----
  calls,               \* the collaborator calls issued, as <<operation, target>>
  shown,               \* what confirm_deletion displayed: <<>> or <<bucket, id>>
  confirmed,           \* confirm_deletion has returned True
  summaryPrinted,
  events,              \* what happened in the run, by name
  skipped,             \* the distributions find_cloudfront_for_s3_bucket skipped
  sent                 \* the mutating calls issued, in order, with their answers

worldVars == <<bucketExists, locationConstraint, keyLayout, deletedKeys, dists>>
mainVars == <<bucket_name, region, cf_info, cloudfront_deleted_successfully,
              bucket_emptied_successfully, bucket_deleted_successfully, exitCode>>
findVars == <<target_origin_domain, found_distribution, distribution_count,
              listCursor, pageItems>>
cfVars == <<latest_etag>>
emptyVars == <<objects_to_delete, total_objects_found, pageCursor>>
obsVars == <<shown, confirmed, summaryPrinted, events, skipped>>
vars == <<worldVars, mainVars, findVars, cfVars, emptyVars, obsVars,
          pc, typed, elapsed, result, calls, sent, num_attempts>>

(***************************************************************************)
(* Initial state: the collaborators hold a deployed site (or what is left  *)
(* of one), the program has just been started.                             *)
(***************************************************************************)
\* The website endpoint of the bucket, as a distribution's origin names it.
Endpoint(lc) == TargetOriginDomain(TheBucket, RegionOfConstraint(lc))
\* The same name in another case: a different origin.
UpperEndpoint(lc) == TargetOriginDomain("SITE-ABC", RegionOfConstraint(lc))

\* The origin lists a distribution may have.
OriginLists(lc) ==
  { <<UpperEndpoint(lc), Endpoint(lc)>>, <<Endpoint(lc), Endpoint(lc)>>,
    <<UpperEndpoint(lc)>> }

NoDist == [origins |-> <<>>, enabled |-> FALSE, status |-> "Deployed",
           version |-> 0, present |-> "gone"]

\* The listing pages of the bucket's keys (versions and delete markers), for
\* each way the bucket may have been filled.
KeyLayouts == {"empty", "small", "big", "huge"}
PagesOf(layout) ==
  CASE layout = "empty" -> <<>>
    [] layout = "small" ->
         << [versions |-> Range(1, SmallKeys), markers |-> <<SmallKeys + 1>>] >>
    [] layout = "big" ->
         << [versions |-> Range(1, BigPageKeys), markers |-> <<>>],
            [versions |-> <<>>, markers |-> <<BigPageKeys + 1>>] >>
    [] layout = "huge" ->
         << [versions |-> Range(1, BigPageKeys), markers |-> <<>>],
            [versions |-> Range(BigPageKeys + 1, 2 * BigPageKeys), markers |-> <<>>],
            [versions |-> Range(2 * BigPageKeys + 1, 2 * BigPageKeys + LastPageKeys - 1),
             markers |-> <<2 * BigPageKeys + LastPageKeys>>] >>

KeysOf(layout) ==
  LET pages == PagesOf(layout) IN
    UNION {Elems(pages[i].versions) \cup Elems(pages[i].markers) : i \in 1..Len(pages)}

\* The buckets a run may meet: none; one of the default region, filled in
\* each way; a small one that reports another constraint.
BucketWorlds ==
  {[exists |-> FALSE, constraint |-> NoneVal, layout |-> "empty"]}
    \cup {[exists |-> TRUE, constraint |-> NoneVal, layout |-> l] : l \in KeyLayouts}
    \cup {[exists |-> TRUE, constraint |-> c, layout |-> "small"] : c \in {"", OtherRegion}}

\* A distribution as deployed, and as an earlier run of the program may have
\* left it: disabled with the change in progress or deployed, or with its
\* deletion accepted and not yet completed.
Deployed(o) == [origins |-> o, enabled |-> TRUE, status |-> "Deployed",
                version |-> 1, present |-> "yes"]
LeftOver(o) ==
  { [origins |-> o, enabled |-> FALSE, status |-> "InProgress", version |-> 2,
     present |-> "yes"],
    [origins |-> o, enabled |-> FALSE, status |-> "Deployed", version |-> 2,
     present |-> "yes"],
    [origins |-> o, enabled |-> FALSE, status |-> "Deployed", version |-> 2,
     present |-> "deleting"] }

\* The distributions of the account, in every way a run may find them: the
\* first n deployed, or one left over by an earlier run.
DistWorlds(lc) ==
  {f \in [DistIds -> {Deployed(o) : o \in OriginLists(lc)} \cup {NoDist}] :
     \E n \in 0..MaxDists : \A i \in 1..MaxDists : (f[AllDistIds[i]] = NoDist) <=> (i > n)}
    \cup {[d \in DistIds |-> IF d = AllDistIds[1] THEN w ELSE NoDist] :
            w \in UNION {LeftOver(o) : o \in OriginLists(lc)}}

\* No distribution, or one deployed in front of the bucket.
FewDistWorlds(lc) ==
  {[d \in DistIds |-> NoDist],
   [d \in DistIds |-> IF d = AllDistIds[1]
                        THEN Deployed(<<UpperEndpoint(lc), Endpoint(lc)>>) ELSE NoDist]}

\* The buckets met with every state of the distributions; the other buckets
\* are met with few.
PlainBuckets == {w \in BucketWorlds : w.constraint = NoneVal /\ w.layout \in {"empty", "small"}}

InitWorld ==
  /\ \E w \in BucketWorlds :
       /\ bucketExists = w.exists
       /\ locationConstraint = w.constraint
       /\ keyLayout = w.layout
       /\ dists \in IF w \in PlainBuckets THEN DistWorlds(w.constraint)
                                          ELSE FewDistWorlds(w.constraint)
  /\ deletedKeys = {}

EOFLine == <<"<EOF>">>

\* The program's variables when a run starts.
InitRun ==
  /\ pc = "start"
  /\ bucket_name = NoneVal
  /\ region = NoneVal
  /\ cf_info = <<>>
  /\ cloudfront_deleted_successfully = FALSE
  /\ bucket_emptied_successfully = FALSE
  /\ bucket_deleted_successfully = FALSE
  /\ exitCode = NoneVal
  /\ target_origin_domain = NoneVal
  /\ found_distribution = <<>>
  /\ distribution_count = 0
  /\ listCursor = 0
  /\ pageItems = <<>>
  /\ typed = <<>>
  /\ latest_etag = NoneVal
  /\ elapsed = 0
  /\ objects_to_delete = <<>>
  /\ total_objects_found = 0
  /\ pageCursor = 0
  /\ result = FALSE
  /\ num_attempts = 0
  /\ calls = {}
  /\ shown = <<>>
  /\ confirmed = FALSE
  /\ summaryPrinted = FALSE
  /\ events = {}
  /\ skipped = {}
  /\ sent = <<>>

Init == InitWorld /\ InitRun

\* sys.exit(code)
Exit(code) == pc' = "done" /\ exitCode' = code

\* The collaborator call <<operation, target>> is issued.
Call(op, target) == calls' = calls \cup {<<op, target>>}

\* A mutating call is issued with its token (CDN) or its keys (bulk delete),
\* and answered: "ok", "errors" (a bulk delete with "Errors") or an error code.
Send(op, target, token, keys, answer) ==
  sent' = Append(sent, [op |-> op, target |-> target, token |-> token,
                        keys |-> keys, answer |-> answer])

\* Something worth remembering happened.
Event(e) == events' = events \cup {e}

(***************************************************************************)
(* main, steps 1 and 2: the bucket name and its region.                    *)
(***************************************************************************)
\* What the operator may type for a name or a region, and str.strip() of it.
BucketNameInputs == {"", "  ", "site-abc", " site-abc "}
RegionInputs == {"", "us-east-1", " eu-west-2 "}
\* input() finds its stream closed: EOFError, which main does not catch.
EOFText == "<EOF>"
StripText(s) ==
  CASE s = "  " -> ""
    [] s = " site-abc " -> "site-abc"
    [] s = " eu-west-2 " -> "eu-west-2"
    [] OTHER -> s

\* main, lines 526-532.
GetBucketName ==
  /\ pc = "start"
  /\ \E raw \in BucketNameInputs \cup {EOFText} :
       LET name == StripText(raw) IN
         IF name = "" \/ raw = EOFText
           THEN /\ Exit("1")
                /\ UNCHANGED bucket_name
           ELSE /\ bucket_name' = name
                /\ pc' = "get_region"
                /\ UNCHANGED exitCode
  /\ UNCHANGED <<sent, num_attempts, worldVars, region, cf_info, cloudfront_deleted_successfully,
                 bucket_emptied_successfully, bucket_deleted_successfully,
                 findVars, cfVars, emptyVars, obsVars, typed, elapsed, result, calls>>

\* get_s3_bucket_region on the answer of get_bucket_location: "error" for a
\* ClientError, else the LocationConstraint of the response.
get_s3_bucket_region(answer) ==
  IF answer = "error" THEN NoneVal
  ELSE IF answer = NoneVal THEN "us-east-1"
  ELSE answer

\* The answers get_bucket_location can give.
LocationAnswers(name) ==
  IF name = TheBucket /\ bucketExists THEN {locationConstraint, "error"} ELSE {"error"}

\* main, lines 534-536 with get_s3_bucket_region.
GetRegion ==
  /\ pc = "get_region"
  /\ Call("get_bucket_location", bucket_name)
  /\ \E answer \in LocationAnswers(bucket_name) :
       /\ region' = get_s3_bucket_region(answer)
       /\ pc' = IF Truthy(region') THEN "find_start" ELSE "manual_region"
  /\ UNCHANGED <<sent, num_attempts, worldVars, bucket_name, cf_info,
                 cloudfront_deleted_successfully,
                 bucket_emptied_successfully, bucket_deleted_successfully, exitCode,
                 findVars, cfVars, emptyVars, obsVars, typed, elapsed, result>>

\* main, lines 537-541.
ManualRegion ==
  /\ pc = "manual_region"
  /\ \E raw \in RegionInputs \cup {EOFText} :
       LET r == StripText(raw) IN
         IF r = "" \/ raw = EOFText
           THEN /\ Exit("1")
                /\ region' = IF raw = EOFText THEN region ELSE r
           ELSE /\ region' = r
                /\ pc' = "find_start"
                /\ UNCHANGED exitCode
  /\ UNCHANGED <<sent, num_attempts, worldVars, bucket_name, cf_info,
                 cloudfront_deleted_successfully,
                 bucket_emptied_successfully, bucket_deleted_successfully,
                 findVars, cfVars, emptyVars, obsVars, typed, elapsed, result, calls>>

(***************************************************************************)
(* find_cloudfront_for_s3_bucket.                                          *)
(***************************************************************************)
\* The distributions list_distributions returns, in its order.
ListedIds ==
  SelectSeq(SubSeq(AllDistIds, 1, MaxDists), LAMBDA d : dists[d].present # "gone")

\* A comparison of origin domains that ignores the case of the letters.
OriginMatchesAnyCase(domain, target) ==
  \/ domain = target
  \/ \E lc \in {NoneVal, OtherRegion} : {domain, target} = {Endpoint(lc), UpperEndpoint(lc)}

\* origin.get("DomainName") == target_origin_domain
OriginMatches(domain, target) == domain = target

\* A test of the origins that takes any origin for a match.
HasAnyOrigin(origins, target) == Len(origins) > 0

\* The scan of one configuration's origins, lines 163-165: some origin matches.
HasMatchingOrigin(origins, target) ==
  \E i \in 1..Len(origins) : OriginMatches(origins[i], target)

\* A search that returns no distribution, whatever it met.
NothingFound(count, found) == <<>>

\* A scan that counts every origin that matches.
EveryOriginCounted(origins, target) ==
  Cardinality({i \in 1..Len(origins) : OriginMatches(origins[i], target)})

\* The matches one distribution adds to distribution_count, lines 163-176:
\* the scan of its origins ends at the first that matches (break).
MatchesCounted(origins, target) == IF HasMatchingOrigin(origins, target) THEN 1 ELSE 0

\* The value returned once every page has been examined, lines 180-188.
FindResult(count, found) == IF count = 1 THEN found ELSE <<>>

\* Lines 144-150.
FindStart ==
  /\ pc = "find_start"
  /\ target_origin_domain' = TargetOriginDomain(bucket_name, region)
  /\ found_distribution' = <<>>
  /\ distribution_count' = 0
  /\ listCursor' = 0
  /\ pageItems' = <<>>
  /\ pc' = "find_page"
  /\ result' = <<>>
  /\ UNCHANGED <<sent, num_attempts, worldVars, mainVars, cfVars, emptyVars, obsVars, typed,
                 elapsed, calls>>

\* A search that keeps the first match when it meets a second one.
FirstMatchWins(found) == found

\* The value returned when a second distribution matches, line 174.
AmbiguousResult(found) == <<>>

\* The value returned when the listing fails, lines 190-192: None, whatever
\* was found on the pages before.
ListErrorResult(found) == <<>>

\* The paginator is asked for the next page, lines 151-153; with no page left,
\* lines 180-188; on a listing error, lines 190-192.
FindNextPage ==
  /\ pc = "find_page"
  /\ \/ \* ClientError from list_distributions
        /\ listCursor < Len(ListedIds) \/ listCursor = 0
        /\ Call("list_distributions", "")
        /\ Event("list_error")
        /\ result' = ListErrorResult(found_distribution)
        /\ pc' = "find_return"
        /\ UNCHANGED <<listCursor, pageItems>>
     \/ \* a page with the next k distributions
        /\ \E k \in 1..(Len(ListedIds) - listCursor) :
             /\ pageItems' = SubSeq(ListedIds, listCursor + 1, listCursor + k)
             /\ listCursor' = listCursor + k
        /\ Call("list_distributions", "")
        /\ pc' = "find_item"
        /\ UNCHANGED <<result, events>>
     \/ \* an account without distributions: one page without "Items"
        /\ Len(ListedIds) = 0 /\ listCursor = 0
        /\ Call("list_distributions", "")
        /\ listCursor' = 1
        /\ UNCHANGED <<pc, pageItems, result, events>>
     \/ \* no page left
        /\ listCursor >= Len(ListedIds) /\ listCursor > 0
        /\ result' = FindResult(distribution_count, found_distribution)
        /\ pc' = "find_return"
        /\ UNCHANGED <<listCursor, pageItems, calls, events>>
  /\ UNCHANGED <<sent, num_attempts, worldVars, mainVars, target_origin_domain, found_distribution,
                 distribution_count, cfVars, emptyVars, shown, confirmed,
                 summaryPrinted, skipped, typed, elapsed>>

\* A search that a failed read of a configuration ends.
ConfigErrorEndsSearch(onward) == "find_return"

\* The handler of lines 177-178: a warning, and the loop goes on.
AfterConfigError(onward) == onward

\* One distribution of the page, lines 155-178.
FindItem ==
  /\ pc = "find_item"
  /\ LET dist_id == Head(pageItems)
         rest == Tail(pageItems)
         onward == IF rest = <<>> THEN "find_page" ELSE "find_item"
     IN /\ Call("get_distribution_config", dist_id)
        /\ \/ \* ClientError: the distribution is skipped
              /\ skipped' = skipped \cup {dist_id}
              /\ pageItems' = rest
              /\ pc' = AfterConfigError(onward)
              /\ UNCHANGED <<found_distribution, distribution_count, result, events>>
           \/ \* the configuration and its ETag
              /\ UNCHANGED skipped
              /\ LET etag == ETag(dists[dist_id].version) IN
                   IF MatchesCounted(dists[dist_id].origins, target_origin_domain) = 0
                     THEN /\ pageItems' = rest
                          /\ pc' = onward
                          /\ UNCHANGED <<found_distribution, distribution_count, result,
                                         events>>
                     ELSE IF /\ distribution_count = 0
                             /\ MatchesCounted(dists[dist_id].origins,
                                               target_origin_domain) = 1
                       THEN /\ found_distribution' = <<dist_id, etag>>
                            /\ distribution_count' = distribution_count + 1
                            /\ pageItems' = rest
                            /\ pc' = onward
                            /\ UNCHANGED <<result, events>>
                       ELSE /\ result' = AmbiguousResult(found_distribution)
                            /\ Event("ambiguous")
                            /\ pc' = "find_return"
                            /\ UNCHANGED <<found_distribution, distribution_count,
                                           pageItems>>
  /\ UNCHANGED <<sent, num_attempts, worldVars, mainVars, target_origin_domain, listCursor, cfVars,
                 emptyVars, shown, confirmed, summaryPrinted, typed, elapsed>>

\* main, lines 544-546: the result is taken and the function's locals are gone.
FindReturn ==
  /\ pc = "find_return"
  /\ pc' = "confirm"
  /\ cf_info' = result
  /\ result' = FALSE
  /\ target_origin_domain' = NoneVal
  /\ found_distribution' = <<>>
  /\ distribution_count' = 0
  /\ listCursor' = 0
  /\ pageItems' = <<>>
  /\ skipped' = {}
  /\ UNCHANGED <<sent, num_attempts, worldVars, bucket_name, region,
                 cloudfront_deleted_successfully,
                 bucket_emptied_successfully, bucket_deleted_successfully, exitCode,
                 cfVars, emptyVars, shown, confirmed, summaryPrinted, events, typed,
                 elapsed, calls>>

\* distribution_id and distribution_etag of main, lines 545-546.
distribution_id == IF cf_info # <<>> THEN cf_info[1] ELSE NoneVal
distribution_etag == IF cf_info # <<>> THEN cf_info[2] ELSE NoneVal

(***************************************************************************)
(* confirm_deletion.                                                       *)
(***************************************************************************)
\* A gate that compares the line as typed.
confirm_exact(line) == line = YesToken

\* The decision on the line read, lines 224-234: EOFLine stands for EOFError.
confirm_deletion(line) == line # EOFLine /\ Lower(Strip(line)) = YesToken

\* A display that names the bucket only.
DisplayedBucketOnly(bucket, dist) == <<bucket, NoneVal>>

\* What the gate displays, lines 216-220: the bucket, and the distribution
\* if there is one.
DisplayedResources(bucket, dist) ==
  <<bucket, IF Truthy(dist) THEN dist ELSE NoneVal>>

\* Lines 212-225: the resources are displayed and a line is read.
ConfirmPrompt ==
  /\ pc = "confirm"
  /\ shown' = DisplayedResources(bucket_name, distribution_id)
  /\ typed' \in ConfirmInputs \cup {EOFLine}
  /\ pc' = "confirm_decide"
  /\ UNCHANGED <<sent, num_attempts, worldVars, mainVars, findVars, cfVars, emptyVars, confirmed,
                 summaryPrinted, events, skipped, elapsed, result, calls>>

\* A run that goes on after the gate, whatever it returned.
RefusalIgnored(ok) == FALSE

\* main, line 549: a refusal ends the run.
RefusalEndsRun(ok) == ~ok

\* Lines 225-234 and main, lines 549-550.
ConfirmDecide ==
  /\ pc = "confirm_decide"
  /\ confirmed' = confirm_deletion(typed)
  /\ IF RefusalEndsRun(confirmed')
       THEN Exit("0")
       ELSE /\ pc' = "main_cloudfront"
            /\ UNCHANGED exitCode
  /\ UNCHANGED <<sent, num_attempts, worldVars, bucket_name, region, cf_info,
                 cloudfront_deleted_successfully, bucket_emptied_successfully,
                 bucket_deleted_successfully, findVars, cfVars, emptyVars, shown,
                 summaryPrinted, events, skipped, typed, elapsed, result, calls>>

(***************************************************************************)
(* delete_cloudfront_distribution.                                         *)
(***************************************************************************)
\* The states a distribution may be found in when a call about it arrives:
\* a change in progress may have been deployed, a deletion completed.
Progress(d) ==
  {dists[d]}
    \cup (IF dists[d].present # "gone" /\ dists[d].status = "InProgress"
            THEN {[dists[d] EXCEPT !.status = "Deployed"]} ELSE {})
    \cup (IF dists[d].present = "deleting"
            THEN {[dists[d] EXCEPT !.present = "gone"]} ELSE {})

\* A handler that takes every error for "already gone".
AnyErrorIsSuccess(code) == TRUE

\* A handler that takes no error for "already gone".
NoErrorIsSuccess(code) == FALSE

\* A handler that takes the distribution's absence for success wherever it
\* shows.
AbsenceIsSuccess(code) == code = "NoSuchDistribution"

\* The outer handler, lines 335-353: the value returned for an error code.
CfErrorResult(code) == code = "NoSuchDistribution"

\* The handler inside the wait for disablement, lines 302-305: the value
\* returned for an error code.
DisablePollErrorResult(code) == FALSE

\* The error codes get_distribution_config may answer with.
ConfigErrors(w) ==
  IF w.present = "gone" THEN {"NoSuchDistribution"} ELSE {"AccessDenied"}

\* The error codes update_distribution may answer with, given the token sent.
UpdateErrors(w, token) ==
  IF w.present = "gone" THEN {"NoSuchDistribution"}
  ELSE {"IllegalUpdate", "AccessDenied"}
         \cup (IF token # ETag(w.version) THEN {"InvalidIfMatchVersion"} ELSE {})

\* update_distribution is accepted.
UpdateAccepted(w, token) == w.present # "gone" /\ token = ETag(w.version)

\* The error codes delete_distribution may answer with, given the token sent.
DeleteErrors(w, token) ==
  IF w.present = "gone" THEN {"NoSuchDistribution"}
  ELSE {"AccessDenied"}
         \cup (IF w.enabled \/ w.status # "Deployed" THEN {"DistributionNotDisabled"} ELSE {})
         \cup (IF token # ETag(w.version) THEN {"InvalidIfMatchVersion"} ELSE {})

\* delete_distribution is accepted.
DeleteAccepted(w, token) ==
  /\ w.present # "gone"
  /\ ~w.enabled
  /\ w.status = "Deployed"
  /\ token = ETag(w.version)

\* Seconds measured by time.time() - start, kept up to twice the timeout and
\* as "just past the timeout" beyond.
Clock(t, timeout) == IF t > 2 * timeout THEN timeout + 1 ELSE t

\* A wait that never times out.
CfNeverTimedOut(t) == FALSE

\* elapsed_time > CLOUDFRONT_TIMEOUT_SECONDS, lines 295 and 321.
CfTimedOut(t) == t > CLOUDFRONT_TIMEOUT_SECONDS

\* A wait that takes the status for 'Deployed' only within the timeout.
DisabledSeenInTime(status, t) == status = "Deployed" /\ ~CfTimedOut(t)

\* Line 291, the first test of a round of the wait for disablement: the
\* status alone, whatever the time elapsed.
DisabledSeen(status, t) == status = "Deployed"

\* main, lines 557-568: the teardown is entered, or skipped.
MainCloudfront ==
  /\ pc = "main_cloudfront"
  /\ IF Truthy(distribution_id) /\ Truthy(distribution_etag)
       THEN /\ latest_etag' = distribution_etag
            /\ pc' = "cf_get_config"
            /\ UNCHANGED cloudfront_deleted_successfully
       ELSE /\ cloudfront_deleted_successfully' = TRUE
            /\ pc' = "main_empty"
            /\ UNCHANGED latest_etag
  /\ typed' = <<>>
  /\ UNCHANGED <<sent, num_attempts, worldVars, bucket_name, region, cf_info,
                 bucket_emptied_successfully,
                 bucket_deleted_successfully, exitCode, findVars, emptyVars, obsVars,
                 elapsed, result, calls>>

\* A teardown that disables whatever it finds.
NeverDisabled(w) == FALSE

\* Line 271: not dist_config["Enabled"].
AlreadyDisabled(w) == ~w.enabled

\* Lines 264-273: the live configuration is read.
CfGetConfig ==
  /\ pc = "cf_get_config"
  /\ Call("get_distribution_config", distribution_id)
  /\ \E w \in Progress(distribution_id) :
       /\ dists' = [dists EXCEPT ![distribution_id] = w]
       /\ \/ \E code \in ConfigErrors(w) :
               /\ result' = CfErrorResult(code)
               /\ pc' = "cf_return"
               /\ UNCHANGED latest_etag
               /\ events' = IF code = "NoSuchDistribution"
                              THEN events \cup {"absent_on_read"} ELSE events
          \/ /\ w.present # "gone"
             /\ latest_etag' = ETag(w.version)
             /\ pc' = IF AlreadyDisabled(w) THEN "cf_delete" ELSE "cf_update"
             /\ events' = IF w.enabled THEN events ELSE events \cup {"found_disabled"}
             /\ UNCHANGED result
  /\ UNCHANGED <<sent, num_attempts, bucketExists, locationConstraint, keyLayout, deletedKeys,
                 mainVars,
                 findVars, emptyVars, shown, confirmed, summaryPrinted, skipped, typed,
                 elapsed>>

\* Lines 276-284: the distribution is disabled.
CfUpdate ==
  /\ pc = "cf_update"
  /\ Call("update_distribution", distribution_id)
  /\ \E w \in Progress(distribution_id) :
       \/ \E code \in UpdateErrors(w, latest_etag) :
            /\ Send("update_distribution", distribution_id, latest_etag, <<>>, code)
            /\ dists' = [dists EXCEPT ![distribution_id] = w]
            /\ result' = CfErrorResult(code)
            /\ pc' = "cf_return"
            /\ UNCHANGED <<latest_etag, elapsed>>
       \/ /\ UpdateAccepted(w, latest_etag)
          /\ Send("update_distribution", distribution_id, latest_etag, <<>>, "ok")
          /\ dists' = [dists EXCEPT ![distribution_id] =
                         [w EXCEPT !.enabled = FALSE, !.status = "InProgress",
                                   !.version = w.version + 1]]
          /\ latest_etag' = ETag(w.version + 1)
          /\ elapsed' = 0
          /\ pc' = "cf_wait_disabled"
          /\ UNCHANGED result
  /\ UNCHANGED <<num_attempts, bucketExists, locationConstraint, keyLayout, deletedKeys,
                 mainVars, findVars, emptyVars, obsVars, typed>>

\* One round of the wait for disablement, lines 285-305.
CfWaitDisabled ==
  /\ pc = "cf_wait_disabled"
  /\ Call("get_distribution", distribution_id)
  /\ \E w \in Progress(distribution_id), dt \in {CdnFastCall, CdnSlowCall} :
       LET elapsed_time == Clock(elapsed + dt, CLOUDFRONT_TIMEOUT_SECONDS) IN
         /\ dists' = [dists EXCEPT ![distribution_id] = w]
         /\ \/ \* ClientError, whatever its code (lines 302-305)
               \E code \in ConfigErrors(w) :
                 /\ result' = DisablePollErrorResult(code)
                 /\ pc' = "cf_return"
                 /\ elapsed' = elapsed_time
                 /\ events' = IF code = "NoSuchDistribution"
                                THEN events \cup {"absent_on_disable_poll"} ELSE events
            \/ /\ w.present # "gone"
               /\ IF DisabledSeen(w.status, elapsed_time)
                    THEN /\ pc' = "cf_delete"
                         /\ elapsed' = elapsed_time
                         /\ UNCHANGED <<result, events>>
                    ELSE IF CfTimedOut(elapsed_time)
                      THEN /\ result' = FALSE
                           /\ pc' = "cf_return"
                           /\ elapsed' = elapsed_time
                           /\ Event("disable_timeout")
                      ELSE /\ elapsed' = elapsed_time + POLLING_INTERVAL_SECONDS
                           /\ UNCHANGED <<pc, result, events>>
  /\ UNCHANGED <<sent, num_attempts, bucketExists, locationConstraint, keyLayout, deletedKeys,
                 mainVars,
                 findVars, cfVars, emptyVars, shown, confirmed, summaryPrinted, skipped,
                 typed>>

\* Lines 307-315: the deletion is requested with the latest token known.
CfDelete ==
  /\ pc = "cf_delete"
  /\ Call("delete_distribution", distribution_id)
  /\ \E w \in Progress(distribution_id) :
       \/ \E code \in DeleteErrors(w, latest_etag) :
            /\ Send("delete_distribution", distribution_id, latest_etag, <<>>, code)
            /\ dists' = [dists EXCEPT ![distribution_id] = w]
            /\ result' = CfErrorResult(code)
            /\ pc' = "cf_return"
            /\ UNCHANGED elapsed
       \/ /\ DeleteAccepted(w, latest_etag)
          /\ Send("delete_distribution", distribution_id, latest_etag, <<>>, "ok")
          /\ dists' = [dists EXCEPT ![distribution_id] = [w EXCEPT !.present = "deleting"]]
          /\ elapsed' = 0
          /\ pc' = "cf_wait_deleted"
          /\ UNCHANGED result
  /\ UNCHANGED <<num_attempts, bucketExists, locationConstraint, keyLayout, deletedKeys,
                 mainVars, findVars, cfVars, emptyVars, obsVars, typed>>

\* One round of the wait for deletion, lines 316-333.
CfWaitDeleted ==
  /\ pc = "cf_wait_deleted"
  /\ Call("get_distribution", distribution_id)
  /\ \E w \in Progress(distribution_id), dt \in {CdnFastCall, CdnSlowCall} :
       LET elapsed_time == Clock(elapsed + dt, CLOUDFRONT_TIMEOUT_SECONDS) IN
         /\ dists' = [dists EXCEPT ![distribution_id] = w]
         /\ \/ \* ClientError: NoSuchDistribution once it is gone, else another
               \E code \in ConfigErrors(w) :
                 /\ result' = (code = "NoSuchDistribution")
                 /\ pc' = "cf_return"
                 /\ elapsed' = elapsed_time
                 /\ Event(IF code = "NoSuchDistribution" THEN "gone_seen" ELSE "poll_error")
            \/ /\ w.present # "gone"
               /\ IF CfTimedOut(elapsed_time)
                    THEN /\ result' = FALSE
                         /\ pc' = "cf_return"
                         /\ elapsed' = elapsed_time
                         /\ Event("delete_timeout")
                    ELSE /\ elapsed' = elapsed_time + POLLING_INTERVAL_SECONDS
                         /\ UNCHANGED <<pc, result, events>>
  /\ UNCHANGED <<sent, num_attempts, bucketExists, locationConstraint, keyLayout, deletedKeys,
                 mainVars,
                 findVars, cfVars, emptyVars, shown, confirmed, summaryPrinted, skipped,
                 typed>>

\* A run that goes on to the bucket, whatever the teardown returned.
CdnFailureIgnored(ok) == FALSE

\* main, line 562: a failed teardown ends the run.
CdnFailureIsFatal(ok) == ~ok

\* main, lines 559-565: the teardown has returned.
CfReturn ==
  /\ pc = "cf_return"
  /\ cloudfront_deleted_successfully' = result
  /\ IF CdnFailureIsFatal(result)
       THEN Exit("1")
       ELSE /\ pc' = "main_empty"
            /\ UNCHANGED exitCode
  /\ Event(IF result THEN "cdn_returned_true" ELSE "cdn_returned_false")
  /\ result' = FALSE
  /\ latest_etag' = NoneVal
  /\ elapsed' = 0
  /\ UNCHANGED <<sent, num_attempts, worldVars, bucket_name, region, cf_info,
                 bucket_emptied_successfully,
                 bucket_deleted_successfully, findVars, emptyVars, shown, confirmed,
                 summaryPrinted, skipped, typed, calls>>

(***************************************************************************)
(* empty_s3_bucket.                                                        *)
(***************************************************************************)
\* The object store answers for this name with the bucket's state.
BucketThere(name) == name = TheBucket /\ bucketExists

\* The pages the listing is split into, and the keys still in the bucket.
keyPages == PagesOf(keyLayout)
bucketKeys == KeysOf(keyLayout) \ deletedKeys

\* The keys of listing page i that are still in the bucket.
LiveVersions(i) == SelectSeq(keyPages[i].versions, LAMBDA k : k \notin deletedKeys)
LiveMarkers(i) == SelectSeq(keyPages[i].markers, LAMBDA k : k \notin deletedKeys)

\* The listing pages after page c that still hold a key.
PagesLeft(c) ==
  {i \in (c + 1)..Len(keyPages) : LiveVersions(i) # <<>> \/ LiveMarkers(i) # <<>>}

Min(S) == CHOOSE x \in S : \A y \in S : x <= y

\* time.time() - start_time > S3_DELETE_TIMEOUT_SECONDS, line 425.
S3TimedOut(t) == t > S3_DELETE_TIMEOUT_SECONDS

\* A slice that keeps the last object of the batch for the next one.
RestFromLast(objs) == SubSeq(objs, BatchSize, Len(objs))

\* The batch sliced off by lines 415-416, and what stays.
BatchOf(objs) == SubSeq(objs, 1, BatchSize)
RestOf(objs) == SubSeq(objs, BatchSize + 1, Len(objs))

\* An emptier that collects the whole listing before it deletes.
BatchNeverDue(objs) == FALSE

\* The while condition of line 414.
BatchIsDue(objs) == Len(objs) >= BatchSize

\* The handler of lines 443-450: the value returned for an error code.
EmptyErrorResult(code) == code = "NoSuchBucket"

\* The error codes a call about the bucket may answer with.
BucketErrors(name) == IF BucketThere(name) THEN {"AccessDenied"} ELSE {"NoSuchBucket"}

\* The keys a bulk delete may report in "Errors": none of them is deleted.
FailedSets(batch) == {{}, {Head(batch)}, Elems(batch)}

\* An emptier that does not look at "Errors".
BulkErrorsIgnored(errors) == FALSE

\* An emptier that takes every response for a failure.
AnyResponseFailed(errors) == TRUE

\* Lines 421 and 436: the response holds per-object errors.
BulkDeleteFailed(errors) == errors # {}

\* main, lines 570-572.
MainEmpty ==
  /\ pc = "main_empty"
  /\ pc' = IF cloudfront_deleted_successfully THEN "empty_start" ELSE "main_delete"
  /\ UNCHANGED <<sent, num_attempts, worldVars, mainVars, findVars, cfVars, emptyVars, obsVars,
                 typed,
                 elapsed, result, calls>>

\* A ClientError with this code reaches the handler of lines 443-450.
EmptyRaises(code) ==
  /\ result' = EmptyErrorResult(code)
  /\ Event(IF code = "NoSuchBucket" THEN "no_such_bucket" ELSE "s3_error")
  /\ pc' = "empty_return"

\* Lines 374-387.
EmptyStart ==
  /\ pc = "empty_start"
  /\ Call("get_bucket_versioning", bucket_name)
  /\ objects_to_delete' = <<>>
  /\ total_objects_found' = 0
  /\ pageCursor' = 0
  /\ elapsed' = 0
  /\ \/ \E code \in BucketErrors(bucket_name) : EmptyRaises(code)
     \/ /\ BucketThere(bucket_name)
        /\ pc' = "empty_page"
        /\ UNCHANGED <<result, events>>
  /\ UNCHANGED <<sent, num_attempts, worldVars, mainVars, findVars, cfVars, shown, confirmed,
                 summaryPrinted, skipped, typed>>

\* The paginator is asked for the next page, lines 389-411.
EmptyNextPage ==
  /\ pc = "empty_page"
  /\ \/ \* ClientError from list_object_versions
        /\ PagesLeft(pageCursor) # {} \/ pageCursor = 0
        /\ Call("list_object_versions", bucket_name)
        /\ \E code \in BucketErrors(bucket_name) : EmptyRaises(code)
        /\ UNCHANGED <<objects_to_delete, total_objects_found, pageCursor, elapsed>>
     \/ \* a page with versions or delete markers
        /\ PagesLeft(pageCursor) # {}
        /\ Call("list_object_versions", bucket_name)
        /\ LET i == Min(PagesLeft(pageCursor))
               found == LiveVersions(i) \o LiveMarkers(i)
           IN /\ objects_to_delete' = objects_to_delete \o found
              /\ total_objects_found' = total_objects_found + Len(found)
              /\ pageCursor' = i
              /\ pc' = IF BatchIsDue(objects_to_delete') THEN "empty_batch" ELSE "empty_page"
        /\ \E dt \in {S3QuickCall, S3SlowRound} :
             elapsed' = Clock(elapsed + dt, S3_DELETE_TIMEOUT_SECONDS)
        /\ UNCHANGED <<result, events>>
     \/ \* an empty bucket: one page without versions and delete markers
        /\ PagesLeft(0) = {} /\ pageCursor = 0
        /\ Call("list_object_versions", bucket_name)
        /\ pageCursor' = Len(keyPages) + 1
        /\ UNCHANGED <<pc, objects_to_delete, total_objects_found, elapsed, result,
                       events>>
     \/ \* no page left
        /\ PagesLeft(pageCursor) = {} /\ pageCursor > 0
        /\ Event("listed_all")
        /\ pc' = "empty_final"
        /\ UNCHANGED <<objects_to_delete, total_objects_found, pageCursor, elapsed,
                       result, calls>>
  /\ UNCHANGED <<sent, num_attempts, worldVars, mainVars, findVars, cfVars, shown, confirmed,
                 summaryPrinted, skipped, typed>>

\* One round of the while loop, lines 414-427.
EmptyBatch ==
  /\ pc = "empty_batch"
  /\ Call("delete_objects", bucket_name)
  /\ LET batch == BatchOf(objects_to_delete) IN
       /\ objects_to_delete' = RestOf(objects_to_delete)
       /\ \E dt \in {S3FastRound, S3SlowRound} :
            /\ elapsed' = Clock(elapsed + dt, S3_DELETE_TIMEOUT_SECONDS)
            /\ \/ \* ClientError
                  /\ \E code \in BucketErrors(bucket_name) :
                       /\ EmptyRaises(code)
                       /\ Send("delete_objects", bucket_name, NoneVal, batch, code)
                  /\ UNCHANGED deletedKeys
               \/ \* a response, with the keys it reports in "Errors"
                  \E errors \in FailedSets(batch) :
                    /\ Send("delete_objects", bucket_name, NoneVal, batch,
                            IF errors = {} THEN "ok" ELSE "errors")
                    /\ deletedKeys' = deletedKeys \cup (Elems(batch) \ errors)
                    /\ IF BulkDeleteFailed(errors)
                         THEN /\ result' = FALSE
                              /\ Event("bulk_errors")
                              /\ pc' = "empty_return"
                         ELSE IF S3TimedOut(elapsed')
                           THEN /\ result' = FALSE
                                /\ Event("s3_timeout")
                                /\ pc' = "empty_return"
                           ELSE /\ pc' = IF BatchIsDue(objects_to_delete')
                                           THEN "empty_batch" ELSE "empty_page"
                                /\ UNCHANGED <<result, events>>
  /\ UNCHANGED <<num_attempts, bucketExists, locationConstraint, keyLayout, dists, mainVars,
                 findVars, cfVars, total_objects_found, pageCursor, shown, confirmed,
                 summaryPrinted, skipped, typed>>

\* The final batch, lines 430-441.
EmptyFinal ==
  /\ pc = "empty_final"
  /\ \/ /\ objects_to_delete = <<>>
        /\ result' = TRUE
        /\ pc' = "empty_return"
        /\ UNCHANGED <<deletedKeys, calls, events, sent>>
     \/ /\ objects_to_delete # <<>>
        /\ Call("delete_objects", bucket_name)
        /\ \/ \* ClientError
              /\ \E code \in BucketErrors(bucket_name) :
                   /\ EmptyRaises(code)
                   /\ Send("delete_objects", bucket_name, NoneVal, objects_to_delete, code)
              /\ UNCHANGED deletedKeys
           \/ \* a response, with the keys it reports in "Errors"
              \E errors \in FailedSets(objects_to_delete) :
                /\ Send("delete_objects", bucket_name, NoneVal, objects_to_delete,
                        IF errors = {} THEN "ok" ELSE "errors")
                /\ deletedKeys' = deletedKeys \cup (Elems(objects_to_delete) \ errors)
                /\ result' = ~BulkDeleteFailed(errors)
                /\ events' = IF BulkDeleteFailed(errors)
                               THEN events \cup {"bulk_errors"} ELSE events
                /\ pc' = "empty_return"
  /\ UNCHANGED <<num_attempts, bucketExists, locationConstraint, keyLayout, dists, mainVars,
                 findVars, cfVars, emptyVars, shown, confirmed, summaryPrinted, skipped,
                 typed, elapsed>>

\* A run that goes on to the bucket deletion, whatever the emptier returned.
EmptyFailureIgnored(ok) == FALSE

\* main, line 573: a failed emptying ends the run.
EmptyFailureIsFatal(ok) == ~ok

\* main, lines 572-575: empty_s3_bucket has returned.
EmptyReturn ==
  /\ pc = "empty_return"
  /\ bucket_emptied_successfully' = result
  /\ IF EmptyFailureIsFatal(result)
       THEN Exit("1")
       ELSE /\ pc' = "main_delete"
            /\ UNCHANGED exitCode
  /\ Event(IF result THEN "empty_returned_true" ELSE "empty_returned_false")
  /\ result' = FALSE
  /\ objects_to_delete' = <<>>
  /\ total_objects_found' = 0
  /\ pageCursor' = 0
  /\ elapsed' = 0
  /\ UNCHANGED <<sent, num_attempts, worldVars, bucket_name, region, cf_info,
                 cloudfront_deleted_successfully,
                 bucket_deleted_successfully, findVars, cfVars, shown, confirmed,
                 summaryPrinted, skipped, typed, calls>>

(***************************************************************************)
(* delete_s3_bucket and the summary.                                       *)
(***************************************************************************)
\* The error codes delete_bucket may answer with.
DeleteBucketErrors(name) ==
  IF ~BucketThere(name) THEN {"NoSuchBucket"}
  ELSE {"AccessDenied"} \cup (IF bucketKeys # {} THEN {"BucketNotEmpty"} ELSE {})

\* The handler of lines 484-493: the value returned for an error code.
DeleteBucketErrorResult(code) == code = "NoSuchBucket"

\* What a poll of the waiter (head_bucket) may be answered once the deletion
\* is accepted: 404, the bucket is gone; 200, it is still seen; 403, an error.
HeadAnswers == {"404", "200", "403"}

\* The acceptor of the waiter bucket_not_exists: status 404 is success.
WaiterSuccess(answer) == answer = "404"

\* main, lines 577-579, with delete_s3_bucket, lines 468-471 and 481-493:
\* the deletion is requested.
MainDelete ==
  /\ pc = "main_delete"
  /\ IF bucket_emptied_successfully
       THEN \/ \* ClientError from delete_bucket
               /\ Call("delete_bucket", bucket_name)
               /\ \E code \in DeleteBucketErrors(bucket_name) :
                    /\ bucket_deleted_successfully' = DeleteBucketErrorResult(code)
                    /\ Send("delete_bucket", bucket_name, NoneVal, <<>>, code)
               /\ pc' = "summary"
               /\ UNCHANGED <<bucketExists, elapsed>>
            \/ \* accepted: the waiter is started
               /\ BucketThere(bucket_name) /\ bucketKeys = {}
               /\ Call("delete_bucket", bucket_name)
               /\ Send("delete_bucket", bucket_name, NoneVal, <<>>, "ok")
               /\ bucketExists' = FALSE
               /\ elapsed' = 0
               /\ pc' = "delete_wait"
               /\ UNCHANGED bucket_deleted_successfully
       ELSE /\ pc' = "summary"
            /\ UNCHANGED <<bucketExists, bucket_deleted_successfully, calls, sent, elapsed>>
  /\ UNCHANGED <<num_attempts, locationConstraint, keyLayout, deletedKeys, dists,
                 bucket_name, region, cf_info, cloudfront_deleted_successfully,
                 bucket_emptied_successfully, exitCode, findVars, cfVars, emptyVars,
                 obsVars, typed, result>>

\* One poll of the waiter, lines 474-483: head_bucket every Delay seconds,
\* MaxAttempts times at most; a WaiterError is failure.
DeleteWait ==
  /\ pc = "delete_wait"
  /\ Call("head_bucket", bucket_name)
  /\ \E answer \in HeadAnswers :
       IF WaiterSuccess(answer)
         THEN /\ bucket_deleted_successfully' = TRUE
              /\ Event("absence_confirmed")
              /\ pc' = "summary"
              /\ num_attempts' = 0
              /\ elapsed' = 0
         ELSE IF answer = "403"
           THEN /\ bucket_deleted_successfully' = FALSE
                /\ Event("waiter_error")
                /\ pc' = "summary"
                /\ num_attempts' = 0
                /\ elapsed' = 0
           ELSE IF num_attempts + 1 >= MaxAttempts
             THEN /\ bucket_deleted_successfully' = FALSE
                  /\ Event("wait_exhausted")
                  /\ pc' = "summary"
                  /\ num_attempts' = 0
                  /\ elapsed' = 0
             ELSE /\ num_attempts' = num_attempts + 1
                  /\ elapsed' = elapsed + Delay
                  /\ UNCHANGED <<pc, bucket_deleted_successfully, events>>
  /\ UNCHANGED <<sent, worldVars, bucket_name, region, cf_info,
                 cloudfront_deleted_successfully, bucket_emptied_successfully, exitCode,
                 findVars, cfVars, emptyVars, shown, confirmed, summaryPrinted, skipped,
                 typed, result>>

\* A summary that takes every run for a success.
NoOutcomeCheck == TRUE

\* Line 594: the run is a success.
AllSucceeded ==
  cloudfront_deleted_successfully /\ bucket_emptied_successfully
    /\ bucket_deleted_successfully

\* Lines 581-598: the summary is printed and the process ends.
Summary ==
  /\ pc = "summary"
  /\ summaryPrinted' = TRUE
  /\ Exit(IF AllSucceeded THEN "0" ELSE "1")
  /\ UNCHANGED <<sent, num_attempts, worldVars, bucket_name, region, cf_info,
                 cloudfront_deleted_successfully,
                 bucket_emptied_successfully, bucket_deleted_successfully, findVars,
                 cfVars, emptyVars, shown, confirmed, events, skipped, typed, elapsed,
                 result, calls>>

Next ==
  \/ GetBucketName \/ GetRegion \/ ManualRegion
  \/ FindStart \/ FindNextPage \/ FindItem \/ FindReturn
  \/ ConfirmPrompt \/ ConfirmDecide
  \/ MainCloudfront \/ CfGetConfig \/ CfUpdate \/ CfWaitDisabled \/ CfDelete
  \/ CfWaitDeleted \/ CfReturn
  \/ MainEmpty \/ EmptyStart \/ EmptyNextPage \/ EmptyBatch \/ EmptyFinal \/ EmptyReturn
  \/ MainDelete \/ DeleteWait \/ Summary

Spec == Init /\ [][Next]_vars

\* The program's position, its clock and the cursors of its loops: every step
\* of the program changes one of them.
stepVars == <<pc, elapsed, listCursor, pageItems, pageCursor, num_attempts>>

\* The run that goes on: the clock advances and every call returns, so the
\* program takes its next step as long as it has one.
SpecFair == Spec /\ WF_stepVars(Next)

(***************************************************************************)
(* The run with another actor at work on the distribution.                 *)
(***************************************************************************)
\* While the program waits for the disablement (the loop of lines 285-305),
\* another actor updates the distribution's configuration, once: the update
\* leaves it disabled, starts a new deployment and changes its ETag.
ExternalUpdate ==
  /\ pc = "cf_wait_disabled"
  /\ "external_update" \notin events
  /\ dists[distribution_id].present = "yes"
  /\ dists' = [dists EXCEPT ![distribution_id] =
                 [@ EXCEPT !.status = "InProgress", !.version = @ + 1]]
  /\ Event("external_update")
  /\ UNCHANGED <<bucketExists, locationConstraint, keyLayout, deletedKeys, mainVars,
                 findVars, cfVars, emptyVars, shown, confirmed, summaryPrinted, skipped,
                 sent, num_attempts, pc, typed, elapsed, result, calls>>

\* Between the return of empty_s3_bucket and the delete_bucket call of line
\* 470, another actor uploads again one of the objects deleted, once: the
\* bucket is not empty any more (the case of lines 489-491).
ExternalPut ==
  /\ pc = "main_delete"
  /\ bucket_emptied_successfully
  /\ bucketExists
  /\ deletedKeys # {}
  /\ "external_put" \notin events
  /\ deletedKeys' = deletedKeys \ {Min(deletedKeys)}
  /\ Event("external_put")
  /\ UNCHANGED <<bucketExists, locationConstraint, keyLayout, dists, mainVars,
                 findVars, cfVars, emptyVars, shown, confirmed, summaryPrinted, skipped,
                 sent, num_attempts, pc, typed, elapsed, result, calls>>

\* While the program is about to disable the distribution or waits for the
\* disablement, another actor removes the distribution, once.
ExternalRemove ==
  /\ pc \in {"cf_update", "cf_wait_disabled"}
  /\ "external_remove" \notin events
  /\ dists[distribution_id].present = "yes"
  /\ dists' = [dists EXCEPT ![distribution_id] = [@ EXCEPT !.present = "gone"]]
  /\ Event("external_remove")
  /\ UNCHANGED <<bucketExists, locationConstraint, keyLayout, deletedKeys, mainVars,
                 findVars, cfVars, emptyVars, shown, confirmed, summaryPrinted, skipped,
                 sent, num_attempts, pc, typed, elapsed, result, calls>>

NextConcurrent == Next \/ ExternalUpdate \/ ExternalPut \/ ExternalRemove

SpecConcurrent == Init /\ [][NextConcurrent]_vars

(***************************************************************************)
(* The run interrupted by the operator, and run again.                     *)
(***************************************************************************)
\* The status of a process ended by sys.exit(1).
FailureStatus == "1"

\* The status of the process when the handler of lines 604-605 has printed
\* its message: the program ends normally.
InterruptStatus == "0"

\* KeyboardInterrupt, lines 601-605: raised wherever main is, caught by no
\* handler of main, it ends the process after a message, with status 0.
Interrupt ==
  /\ pc # "done"
  /\ Event("interrupted")
  /\ Exit(InterruptStatus)
  /\ UNCHANGED <<worldVars, bucket_name, region, cf_info, cloudfront_deleted_successfully,
                 bucket_emptied_successfully, bucket_deleted_successfully, findVars,
                 cfVars, emptyVars, shown, confirmed, summaryPrinted, skipped, sent,
                 num_attempts, typed, elapsed, result, calls>>

\* The operator starts the program again: a new process, with the collaborators
\* as the earlier run left them.
Rerun ==
  /\ pc = "done"
  /\ pc' = "start"
  /\ bucket_name' = NoneVal
  /\ region' = NoneVal
  /\ cf_info' = <<>>
  /\ cloudfront_deleted_successfully' = FALSE
  /\ bucket_emptied_successfully' = FALSE
  /\ bucket_deleted_successfully' = FALSE
  /\ exitCode' = NoneVal
  /\ target_origin_domain' = NoneVal
  /\ found_distribution' = <<>>
  /\ distribution_count' = 0
  /\ listCursor' = 0
  /\ pageItems' = <<>>
  /\ typed' = <<>>
  /\ latest_etag' = NoneVal
  /\ elapsed' = 0
  /\ objects_to_delete' = <<>>
  /\ total_objects_found' = 0
  /\ pageCursor' = 0
  /\ result' = FALSE
  /\ num_attempts' = 0
  /\ calls' = {}
  /\ shown' = <<>>
  /\ confirmed' = FALSE
  /\ summaryPrinted' = FALSE
  /\ events' = {}
  /\ skipped' = {}
  /\ sent' = <<>>
  /\ UNCHANGED worldVars

\* A deployed site: the bucket with a few keys or with more than a batch, and
\* no distribution or one in front of it.
InitRerun ==
  /\ bucketExists = TRUE
  /\ locationConstraint = NoneVal
  /\ keyLayout \in {"small", "big"}
  /\ dists \in FewDistWorlds(NoneVal)
  /\ deletedKeys = {}
  /\ InitRun

NextRerun == Next \/ Interrupt \/ Rerun

SpecRerun == InitRerun /\ [][NextRerun]_vars

\* The runs go on: a run started takes its steps or is interrupted, and a run
\* ended is followed by another.
SpecRerunFair == SpecRerun /\ WF_stepVars(NextRerun)

(***************************************************************************)
(* Deployment, src/deployment-python/deploy.py: main and its steps.  The    *)
(* variables are those of the teardown: pc, main's bucket_name, the region *)
(* (REGION), the distribution of create_cloudfront_distribution in         *)
(* found_distribution, main's cloudfront_result in cf_info; sent holds the *)
(* calls that change something, in order, with their answers.  Of the      *)
(* object store the model follows whether the operator owns the bucket     *)
(* TheBucket; the files uploaded are not followed.                         *)
(***************************************************************************)
\* REGION, deploy.py line 77.
REGION == "us-east-1"
\* time.sleep(10), deploy.py line 588.
DeploySleepSeconds == 10

\* DEFAULT_BUCKET_NAME, deploy.py line 75, with one value of its random part.
DEFAULT_BUCKET_NAME == "aws-clf-c02-practice-exam-app-1a2b3"
\* A bucket name that belongs to another account.
TakenName == "taken-name"

\* What the operator may type for the bucket name (line 123), and for another
\* name after a collision (line 179).
DeployNameInputs == {"", "site-abc", " site-abc ", TakenName}
NewNameInputs == {"", "site-abc", TakenName}

\* A call that changes something, as sent records it.
Entry(op, target, keys, answer) ==
  [op |-> op, target |-> target, token |-> NoneVal, keys |-> keys, answer |-> answer]

\* The operator owns the bucket of this name: it was there, or the run
\* created it.
OwnedByOperator(name) ==
  \/ name = TheBucket /\ bucketExists
  \/ \E i \in 1..Len(sent) :
       sent[i].op = "create_bucket" /\ sent[i].target = name /\ sent[i].answer = "ok"

\* The answers create_bucket (the call) can give for a name.
CreateAnswers(name) ==
  IF name = TakenName THEN {"BucketAlreadyExists"}
  ELSE (IF OwnedByOperator(name) THEN {"BucketAlreadyOwnedByYou"} ELSE {"ok"})
         \cup {"AccessDenied"}

\* The answers a call about the bucket's settings or objects can give.
SettingAnswers(name) ==
  IF OwnedByOperator(name) THEN {"ok", "AccessDenied"}
  ELSE IF name = TakenName THEN {"AccessDenied"}
  ELSE {"NoSuchBucket"}

\* create_bucket(bucket_name, region), lines 133-193, as the ways it can run:
\* the calls it makes and the value it returns.  A collision asks the
\* operator for another name and calls create_bucket again with it (line
\* 187), k times at most here.
RECURSIVE create_bucket(_, _)
create_bucket(name, k) ==
  UNION {
    LET call == <<Entry("create_bucket", name, <<>>, answer)>> IN
      IF answer \in {"ok", "BucketAlreadyOwnedByYou"}
        THEN {[log |-> call, returned |-> TRUE]}
      ELSE IF answer = "BucketAlreadyExists"
        THEN UNION {
               LET new_name == StripText(raw) IN
                 IF new_name = "" THEN {[log |-> call, returned |-> FALSE]}
                 ELSE IF k = 0 THEN {}
                 ELSE {[log |-> call \o r.log, returned |-> r.returned] :
                         r \in create_bucket(new_name, k - 1)}
               : raw \in NewNameInputs}
      ELSE {[log |-> call, returned |-> FALSE]}
    : answer \in CreateAnswers(name)}

\* main, line 623, with get_bucket_name, lines 109-130.
GetDeployBucketName ==
  /\ pc = "deploy_start"
  /\ \E raw \in DeployNameInputs :
       LET user_input == StripText(raw) IN
         bucket_name' = IF user_input # "" THEN user_input ELSE DEFAULT_BUCKET_NAME
  /\ pc' = "create_bucket"
  /\ UNCHANGED <<sent, num_attempts, worldVars, region, cf_info,
                 cloudfront_deleted_successfully, bucket_emptied_successfully,
                 bucket_deleted_successfully, exitCode, findVars, cfVars, emptyVars,
                 obsVars, typed, elapsed, result, calls>>

\* main, lines 630-632, with create_bucket: main keeps the name it passed.
CreateBucket ==
  /\ pc = "create_bucket"
  /\ \E r \in create_bucket(bucket_name, NameRetries) :
       /\ sent' = sent \o r.log
       /\ calls' = calls \cup {<<"create_bucket", r.log[i].target>> : i \in 1..Len(r.log)}
       /\ bucketExists' = (bucketExists \/
                             (r.returned /\ r.log[Len(r.log)].target = TheBucket))
       /\ IF r.returned
            THEN pc' = "public_access" /\ UNCHANGED exitCode
            ELSE Exit("0")
  /\ UNCHANGED <<num_attempts, locationConstraint, keyLayout, deletedKeys, dists,
                 bucket_name, region, cf_info, cloudfront_deleted_successfully,
                 bucket_emptied_successfully, bucket_deleted_successfully, findVars,
                 cfVars, emptyVars, obsVars, typed, elapsed, result>>

\* A step of main that makes one call about the bucket and returns False on
\* a ClientError: main returns then.
BucketStep(op, next) ==
  /\ Call(op, bucket_name)
  /\ \E answer \in SettingAnswers(bucket_name) :
       /\ sent' = Append(sent, Entry(op, bucket_name, <<>>, answer))
       /\ IF answer = "ok"
            THEN pc' = next /\ UNCHANGED exitCode
            ELSE Exit("0")
  /\ UNCHANGED <<num_attempts, worldVars, bucket_name, region, cf_info,
                 cloudfront_deleted_successfully, bucket_emptied_successfully,
                 bucket_deleted_successfully, findVars, cfVars, emptyVars, obsVars,
                 typed, elapsed, result>>

\* main, lines 639-641, with disable_block_public_access, lines 196-234.
DisableBlockPublicAccess ==
  /\ pc = "public_access"
  /\ BucketStep("put_public_access_block", "website")

\* main, lines 644-646, with configure_website, lines 237-270.
ConfigureWebsite ==
  /\ pc = "website"
  /\ BucketStep("put_bucket_website", "policy")

\* main, lines 649-651, with set_bucket_policy, lines 273-316.
SetBucketPolicy ==
  /\ pc = "policy"
  /\ BucketStep("put_bucket_policy", "upload")

\* main, lines 655-656, with upload_directory, lines 378-447: every file is
\* sent, the failures are counted and logged, and main goes on.
UploadDirectory ==
  /\ pc = "upload"
  /\ Call("upload_file", bucket_name)
  /\ \E outcome \in [1..UploadFiles -> SettingAnswers(bucket_name)] :
       sent' = sent \o [i \in 1..UploadFiles |->
                          Entry("upload_file", bucket_name, <<i>>, outcome[i])]
  /\ pc' = "create_distribution"
  /\ UNCHANGED <<num_attempts, worldVars, bucket_name, region, cf_info,
                 cloudfront_deleted_successfully, bucket_emptied_successfully,
                 bucket_deleted_successfully, exitCode, findVars, cfVars, emptyVars,
                 obsVars, typed, elapsed, result>>

\* The id the CDN gives the distribution it creates: the first one free.
NewDistId ==
  AllDistIds[Min({i \in 1..MaxDists : dists[AllDistIds[i]].present = "gone"})]
\* The domain name of a distribution.
DomainOf(d) == d \o ".cloudfront.net"

\* The operator owns the bucket TheBucket already, or not; the account holds
\* other distributions or none, and can hold one more.
InitDeploy ==
  /\ bucketExists \in BOOLEAN
  /\ locationConstraint = NoneVal
  /\ keyLayout = "small"
  /\ deletedKeys = {}
  /\ dists \in {f \in DistWorlds(NoneVal) : f[AllDistIds[MaxDists]] = NoDist}
  /\ pc = "deploy_start"
  /\ bucket_name = NoneVal
  /\ region = REGION
  /\ cf_info = <<>>
  /\ cloudfront_deleted_successfully = FALSE
  /\ bucket_emptied_successfully = FALSE
  /\ bucket_deleted_successfully = FALSE
  /\ exitCode = NoneVal
  /\ target_origin_domain = NoneVal
  /\ found_distribution = <<>>
  /\ distribution_count = 0
  /\ listCursor = 0
  /\ pageItems = <<>>
  /\ typed = <<>>
  /\ latest_etag = NoneVal
  /\ elapsed = 0
  /\ objects_to_delete = <<>>
  /\ total_objects_found = 0
  /\ pageCursor = 0
  /\ result = FALSE
  /\ num_attempts = 0
  /\ calls = {}
  /\ shown = <<>>
  /\ confirmed = FALSE
  /\ summaryPrinted = FALSE
  /\ events = {}
  /\ skipped = {}
  /\ sent = <<>>

\* deploy.py, lines 484-563: the distribution is created, enabled, with the
\* bucket's website endpoint as its origin; or the call fails (line 596).
CreateDistribution ==
  /\ pc = "create_distribution"
  /\ Call("create_distribution", bucket_name)
  /\ \/ \* ClientError: None is returned
        /\ sent' = Append(sent, Entry("create_distribution", bucket_name, <<>>,
                                       "AccessDenied"))
        /\ cf_info' = <<>>
        /\ pc' = "deploy_summary"
        /\ UNCHANGED <<dists, found_distribution, elapsed>>
     \/ \* created: its deployment is in progress
        /\ sent' = Append(sent, Entry("create_distribution", bucket_name, <<>>, "ok"))
        /\ LET d == NewDistId IN
             /\ dists' = [dists EXCEPT ![d] =
                            [origins |-> <<TargetOriginDomain(bucket_name, region)>>,
                             enabled |-> TRUE, status |-> "InProgress", version |-> 1,
                             present |-> "yes"]]
             /\ found_distribution' = <<d, DomainOf(d)>>
        /\ elapsed' = 0
        /\ pc' = "deploy_wait"
        /\ UNCHANGED cf_info
  /\ UNCHANGED <<num_attempts, bucketExists, locationConstraint, keyLayout,
                 deletedKeys, bucket_name, region, cloudfront_deleted_successfully,
                 bucket_emptied_successfully, bucket_deleted_successfully, exitCode,
                 target_origin_domain, distribution_count, listCursor, pageItems, cfVars,
                 emptyVars, obsVars, typed, result>>

\* deploy.py, lines 574-588: one round of "while not deployed".
DeployWait ==
  /\ pc = "deploy_wait"
  /\ Call("get_distribution", found_distribution[1])
  /\ \E w \in Progress(found_distribution[1]), dt \in {CdnFastCall, CdnSlowCall} :
       LET elapsed_time == Clock(elapsed + dt, DeployHorizon) IN
         /\ dists' = [dists EXCEPT ![found_distribution[1]] = w]
         /\ \/ \* ClientError, line 596: None is returned
               /\ cf_info' = <<>>
               /\ pc' = "deploy_summary"
               /\ elapsed' = elapsed_time
            \/ /\ w.status = "Deployed"
               /\ cf_info' = found_distribution
               /\ pc' = "deploy_summary"
               /\ elapsed' = elapsed_time
            \/ /\ w.status # "Deployed"
               /\ elapsed' = elapsed_time + DeploySleepSeconds
               /\ UNCHANGED <<pc, cf_info>>
  /\ UNCHANGED <<sent, num_attempts, bucketExists, locationConstraint, keyLayout,
                 deletedKeys, bucket_name, region, cloudfront_deleted_successfully,
                 bucket_emptied_successfully, bucket_deleted_successfully, exitCode,
                 findVars, cfVars, emptyVars, obsVars, typed, result>>

\* deploy.py, lines 590-594: the operator interrupts the monitoring; the
\* distribution is returned as it is.
DeployInterrupt ==
  /\ pc = "deploy_wait"
  /\ Event("monitoring_interrupted")
  /\ cf_info' = found_distribution
  /\ pc' = "deploy_summary"
  /\ UNCHANGED <<sent, num_attempts, worldVars, bucket_name, region,
                 cloudfront_deleted_successfully, bucket_emptied_successfully,
                 bucket_deleted_successfully, exitCode, findVars, cfVars, emptyVars,
                 shown, confirmed, summaryPrinted, skipped, typed, elapsed, result, calls>>

\* deploy.py, lines 661-688: the summary is printed and main returns.
DeploySummary ==
  /\ pc = "deploy_summary"
  /\ summaryPrinted' = TRUE
  /\ Exit("0")
  /\ found_distribution' = <<>>
  /\ elapsed' = 0
  /\ UNCHANGED <<sent, num_attempts, worldVars, bucket_name, region, cf_info,
                 cloudfront_deleted_successfully, bucket_emptied_successfully,
                 bucket_deleted_successfully, target_origin_domain, distribution_count,
                 listCursor, pageItems, cfVars, emptyVars, shown, confirmed, events,
                 skipped, typed, result, calls>>

\* The steps the program takes by itself, and those the operator causes.
DeployStep ==
  \/ GetDeployBucketName
  \/ CreateBucket
  \/ DisableBlockPublicAccess
  \/ ConfigureWebsite
  \/ SetBucketPolicy
  \/ UploadDirectory
  \/ CreateDistribution
  \/ DeployWait
  \/ DeploySummary

NextDeploy == DeployStep \/ DeployInterrupt

SpecDeploy == InitDeploy /\ [][NextDeploy]_vars

\* The deployment that goes on: the clock advances and every call returns.
SpecDeployFair == SpecDeploy /\ WF_stepVars(DeployStep)

(***************************************************************************)
(* Vocabulary of the properties.                                           *)
(***************************************************************************)
\* The run has issued the collaborator operation op.
Issued(op) == \E c \in calls : c[1] = op

MutatingOps == {"update_distribution", "delete_distribution", "delete_objects",
                "delete_bucket"}
BucketStageOps == {"get_bucket_versioning", "list_object_versions", "delete_objects",
                   "delete_bucket"}
TeardownOps == {"update_distribution", "get_distribution", "delete_distribution"}

BeforeFindPcs == {"start", "get_region", "manual_region", "find_start"}
FindPcs == {"find_page", "find_item", "find_return"}
CfPcs == {"cf_get_config", "cf_update", "cf_wait_disabled", "cf_delete",
          "cf_wait_deleted", "cf_return"}

\* The origin domain the specification expects for a bucket and a region.
ExpectedDomain(b, r) == b \o ".s3-website-" \o r \o ".amazonaws.com"

\* The distributions configured with an origin naming the domain, deleted since
\* the start of the run or not (the model creates no distribution).
HoldersOf(domain) ==
  {d \in DistIds : \E i \in 1..Len(dists[d].origins) : dists[d].origins[i] = domain}

\* Those of them that still exist.
DistsWithOrigin(domain) == {d \in HoldersOf(domain) : dists[d].present # "gone"}

\* The distributions whose origin is the domain the run searches for.
Matching == HoldersOf(ExpectedDomain(bucket_name, region))

\* The distributions whose configuration the run has asked for.
Examined == {c[2] : c \in {x \in calls : x[1] = "get_distribution_config"}}

\* C1: delete_bucket is never called for the bucket, there when the call is
\* made, while a distribution whose origin is the bucket's website endpoint
\* still exists in a state other than fully deleted.
C1_NoBucketDeleteUnderDistribution ==
  (Issued("delete_bucket") /\ (bucketExists \/ Issued("head_bucket"))) =>
    DistsWithOrigin(ExpectedDomain(TheBucket, RegionOfConstraint(locationConstraint))) = {}

\* C2: once delete_cloudfront_distribution has returned failure, the run is
\* over with a non-zero status and has made no call of the bucket stages.
C2_CdnFailureStopsRun ==
  "cdn_returned_false" \in events =>
    /\ pc = "done"
    /\ exitCode = "1"
    /\ \A c \in calls : c[1] \notin BucketStageOps

C2_Witness ==
  /\ "cdn_returned_false" \in events
  /\ Issued("update_distribution")
  /\ pc = "done"

\* C3: a mutating call is issued only in a run in which confirm_deletion has
\* displayed the resources and returned true.
C3_NoMutationBeforeConfirmation ==
  (\E c \in calls : c[1] \in MutatingOps) => (confirmed /\ shown # <<>>)

C3_Witness ==
  /\ confirmed
  /\ Issued("update_distribution")
  /\ Issued("delete_objects")

\* C4, as claimed: delete_bucket is called only with no key left in the bucket,
\* after the listing was enumerated to its end and no bulk delete reported errors.
C4_DeleteOnlyAfterFullEnumeration ==
  Issued("delete_bucket") =>
    /\ bucketKeys = {}
    /\ "listed_all" \in events
    /\ "bulk_errors" \notin events

\* C4, amended: delete_bucket is called only with no key left in the bucket,
\* after the listing was enumerated to its end with no bulk delete reporting
\* errors, or after the store answered that the bucket does not exist.
C4_DeleteOnlyWhenEmptied ==
  Issued("delete_bucket") =>
    /\ bucketKeys = {}
    /\ "bulk_errors" \notin events
    /\ \/ "listed_all" \in events
       \/ "no_such_bucket" \in events /\ ~bucketExists

C4_Witness ==
  /\ Issued("delete_bucket")
  /\ "listed_all" \in events
  /\ keyLayout = "big"
  /\ deletedKeys # {}

\* C5: once empty_s3_bucket has failed (per-object errors, the timeout, an
\* error other than NoSuchBucket), delete_bucket is not called and the run
\* ends with a non-zero status.
C5_EmptierFailureStopsRun ==
  /\ "empty_returned_false" \in events =>
       (pc = "done" /\ exitCode = "1" /\ ~Issued("delete_bucket"))
  /\ events \cap {"bulk_errors", "s3_timeout", "s3_error"} # {} =>
       (pc \in {"empty_return", "done"} /\ exitCode # "0" /\ ~Issued("delete_bucket"))

C5_Witness ==
  /\ "empty_returned_false" \in events
  /\ "bulk_errors" \in events
  /\ deletedKeys # {}
  /\ pc = "done"

\* The gate has just decided on the line in typed.
JustDecided ==
  /\ shown # <<>>
  /\ \/ pc = "main_cloudfront"
     \/ pc = "done" /\ ~confirmed

\* The line is "yes" in any case, between whitespace.
AffirmativeLine(line) ==
  /\ line # EOFLine
  /\ \E i \in 1..Len(line) :
       /\ i + 2 <= Len(line)
       /\ line[i] \in {"y", "Y"}
       /\ line[i + 1] \in {"e", "E"}
       /\ line[i + 2] \in {"s", "S"}
       /\ \A k \in 1..Len(line) : (k < i \/ k > i + 2) => line[k] \in Whitespace

C7_UniqueMatchIsReturned ==
  (/\ pc = "find_return"
   /\ Cardinality(Matching) = 1
   /\ "list_error" \notin events
   /\ Matching \cap skipped = {})
  => \E d \in Matching : result = <<d, ETag(dists[d].version)>>

C7_Witness ==
  /\ pc = "find_return"
  /\ Cardinality(Matching) = 1
  /\ "list_error" \notin events
  /\ Matching \cap skipped = {}
  /\ Len(ListedIds) = MaxDists
  /\ skipped # {}
  /\ result # <<>>

\* The listed distributions up to the second one of a set, in listing order.
UpToSecond(S) ==
  LET idx == {i \in 1..Len(ListedIds) :
                Cardinality({j \in 1..i : ListedIds[j] \in S}) >= 2}
  IN {ListedIds[i] : i \in 1..(IF idx = {} THEN Len(ListedIds) ELSE Min(idx))}

\* C8: with two or more distributions matching (their configurations read,
\* the listing read without error) the search stops at the second match and
\* returns none; the run then shows no distribution and never enters the
\* teardown.
C8_AmbiguityReturnsNone ==
  /\ (/\ pc = "find_return"
      /\ Cardinality(Matching) >= 2
      /\ "list_error" \notin events
      /\ Matching \cap skipped = {})
     => (/\ result = <<>>
         /\ "ambiguous" \in events
         /\ Examined = UpToSecond(Matching))
  /\ ("ambiguous" \in events /\ pc \notin FindPcs)
     => (/\ cf_info = <<>>
         /\ shown # <<>> => shown[2] = NoneVal
         /\ pc \notin CfPcs
         /\ \A c \in calls : c[1] \notin TeardownOps)

C8_Witness ==
  /\ "ambiguous" \in events
  /\ Cardinality(Matching) >= 3
  /\ Cardinality(Examined) = 2
  /\ confirmed
  /\ Issued("get_bucket_versioning")

\* C9: with no distribution matching, the search returns None and the run,
\* once confirmed, goes to the bucket without any call of the CDN teardown.
C9_NoMatchSkipsTeardown ==
  (/\ Truthy(region)
   /\ pc \notin BeforeFindPcs \cup {"find_page", "find_item"}
   /\ Matching = {})
  => (/\ pc = "find_return" => result = <<>>
      /\ pc # "find_return" => cf_info = <<>>
      /\ pc \notin CfPcs
      /\ \A c \in calls : c[1] \notin TeardownOps
      /\ events \cap {"cdn_returned_true", "cdn_returned_false"} = {}
      /\ (confirmed /\ pc \notin {"main_cloudfront", "main_empty", "empty_start"})
           => Issued("get_bucket_versioning"))

C9_Witness ==
  /\ Truthy(region)
  /\ Matching = {}
  /\ Len(ListedIds) > 0
  /\ confirmed
  /\ Issued("delete_bucket")

\* C10: the distribution passed to update_distribution and delete_distribution
\* and the bucket passed to delete_objects and delete_bucket are the ones the
\* confirmation gate displayed.
C10_MutatedResourcesWereShown ==
  \A c \in calls :
    /\ c[1] \in {"update_distribution", "delete_distribution"}
         => (shown # <<>> /\ c[2] = shown[2])
    /\ c[1] \in {"delete_objects", "delete_bucket"}
         => (shown # <<>> /\ c[2] = shown[1])

C10_Witness ==
  /\ Issued("delete_distribution")
  /\ Issued("delete_objects")
  /\ Issued("delete_bucket")


\* C11: no mutating CDN call carries a token that went stale while the run
\* held it: with the other actor's update made during the wait for disablement,
\* neither update_distribution nor delete_distribution is answered that its
\* token does not match the distribution's current one.
C11_NoStaleToken ==
  \A i \in 1..Len(sent) :
    sent[i].op \in {"update_distribution", "delete_distribution"}
      => sent[i].answer # "InvalidIfMatchVersion"

\* C12, as claimed: delete_distribution is called after the disable update
\* only when the status was seen 'Deployed' within 600 seconds of the update.
C12_DeleteOnlyWithinTimeout ==
  pc = "cf_delete" => ~CfTimedOut(elapsed)

\* C12, amended: a poll that finds the status not 'Deployed' once more than
\* 600 seconds have elapsed ends the wait (no later poll is made), the
\* teardown returns failure and delete_distribution is not called in the run.
C12_TimeoutFailsWithoutDelete ==
  /\ pc = "cf_wait_disabled" =>
       elapsed <= CLOUDFRONT_TIMEOUT_SECONDS + POLLING_INTERVAL_SECONDS
  /\ "disable_timeout" \in events =>
       /\ \A i \in 1..Len(sent) : sent[i].op # "delete_distribution"
       /\ ~Issued("delete_distribution")
       /\ pc \in {"cf_return", "done"}
       /\ pc = "cf_return" => result = FALSE
       /\ pc = "done" => ("cdn_returned_false" \in events /\ exitCode = "1")

C12_Witness ==
  /\ "disable_timeout" \in events
  /\ "cdn_returned_false" \in events
  /\ \E i \in 1..Len(sent) : sent[i].op = "update_distribution" /\ sent[i].answer = "ok"
  /\ dists[distribution_id].status = "InProgress"

\* C13: when the configuration read at the start of the teardown has
\* Enabled false, no update_distribution call is made, no poll precedes the
\* deletion, and delete_distribution is the first mutating call, carrying the
\* token of that read.
C13_DisabledSkipsUpdate ==
  "found_disabled" \in events =>
    /\ ~Issued("update_distribution")
    /\ \A i \in 1..Len(sent) : sent[i].op # "update_distribution"
    /\ pc = "cf_delete" =>
         (~Issued("get_distribution")
            /\ latest_etag = ETag(dists[distribution_id].version))
    /\ pc \notin {"cf_update", "cf_wait_disabled"}
    /\ (sent # <<>> \/ pc \notin {"cf_delete"}) =>
         /\ sent # <<>>
         /\ sent[1].op = "delete_distribution"
         /\ sent[1].target = distribution_id
         /\ sent[1].token = ETag(dists[distribution_id].version)

C13_Witness ==
  /\ "found_disabled" \in events
  /\ sent # <<>>
  /\ sent[1].op = "delete_distribution"
  /\ sent[1].answer = "ok"
  /\ "cdn_returned_true" \in events

\* The mutating calls of one operation, as the places they have in sent.
SentAt(op) == {i \in 1..Len(sent) : sent[i].op = op}

\* The teardown has returned failure, or is about to.
TeardownFailed ==
  \/ pc = "cf_return" /\ result = FALSE
  \/ "cdn_returned_false" \in events

\* The teardown has returned success, or is about to.
TeardownSucceeded ==
  \/ pc = "cf_return" /\ result = TRUE
  \/ "cdn_returned_true" \in events

\* C14: run on a distribution an earlier run left disabled and not deleted,
\* the teardown does not fail, unless a call was refused for lack of
\* permission, a poll failed or the wait for deletion timed out.
C14_ReentrantTeardownSucceeds ==
  ("found_disabled" \in events /\ TeardownFailed) =>
    \/ \E i \in 1..Len(sent) : sent[i].answer = "AccessDenied"
    \/ events \cap {"poll_error", "delete_timeout"} # {}

\* The answers that report a conflict on a mutating CDN call.
ConflictAnswers == {"InvalidIfMatchVersion", "IllegalUpdate", "DistributionNotDisabled"}

\* C15: update_distribution, delete_distribution and delete_bucket are each
\* called at most once in a run, and a token mismatch, an update in progress
\* or a not-yet-disabled answer to a CDN call is the last mutating call of
\* the run: the teardown returns failure at once and the run ends with status 1.
C15_NoRetryOfMutatingCalls ==
  /\ \A op \in {"update_distribution", "delete_distribution", "delete_bucket"} :
       Cardinality(SentAt(op)) <= 1
  /\ \A i \in 1..Len(sent) :
       sent[i].answer \in ConflictAnswers =>
         /\ i = Len(sent)
         /\ TeardownFailed
         /\ pc \in {"cf_return", "done"}
         /\ pc = "done" => exitCode = "1"
         /\ sent[i].op = "update_distribution" => ~Issued("get_distribution")

C15_Witness ==
  /\ Len(sent) = 2
  /\ sent[1].op = "update_distribution" /\ sent[1].answer = "ok"
  /\ sent[2].op = "delete_distribution" /\ sent[2].answer = "InvalidIfMatchVersion"
  /\ pc = "done"

\* C16: when delete_distribution is answered that the distribution does not
\* exist, the teardown returns success and the run goes on to the bucket.
C16_AbsentOnDeleteIsSuccess ==
  (\E i \in SentAt("delete_distribution") : sent[i].answer = "NoSuchDistribution") =>
    /\ TeardownSucceeded
    /\ "cdn_returned_false" \notin events
    /\ pc # "cf_return" =>
         /\ cloudfront_deleted_successfully
         /\ pc \in {"main_empty", "empty_start", "empty_page", "empty_batch",
                     "empty_final", "empty_return", "main_delete", "delete_wait", "summary",
                     "done"}
         /\ pc \notin {"main_empty", "empty_start"} => Issued("get_bucket_versioning")

C16_Witness ==
  /\ \E i \in SentAt("delete_distribution") : sent[i].answer = "NoSuchDistribution"
  /\ Issued("get_bucket_versioning")
  /\ Issued("delete_bucket")

\* What holds in each state of the wait for deletion and after it.
WaitDeletedState ==
  /\ pc = "cf_wait_deleted" =>
       /\ sent # <<>>
       /\ sent[Len(sent)].op = "delete_distribution"
       /\ sent[Len(sent)].answer = "ok"
       /\ dists[distribution_id].present = "deleting"
       /\ elapsed <= CLOUDFRONT_TIMEOUT_SECONDS + POLLING_INTERVAL_SECONDS
  /\ "gone_seen" \in events =>
       (TeardownSucceeded /\ dists[distribution_id].present = "gone")
  /\ "delete_timeout" \in events =>
       (TeardownFailed /\ dists[distribution_id].present = "deleting")

\* A poll that keeps the wait going found the distribution, not more than 600
\* seconds after the deletion was accepted, and is followed by a sleep of 10
\* seconds; a poll that ends the wait found it gone, or failed, or timed out.
WaitDeletedStep ==
  pc = "cf_wait_deleted" =>
    /\ Issued("get_distribution")'
    /\ pc' = "cf_wait_deleted" =>
         /\ dists'[distribution_id].present = "deleting"
         /\ \E dt \in {CdnFastCall, CdnSlowCall} :
              /\ elapsed + dt <= CLOUDFRONT_TIMEOUT_SECONDS
              /\ elapsed' = elapsed + dt + POLLING_INTERVAL_SECONDS
    /\ pc' # "cf_wait_deleted" =>
         /\ pc' = "cf_return"
         /\ result' = TRUE <=> dists'[distribution_id].present = "gone"
         /\ (result' = FALSE /\ "poll_error" \notin events') =>
              \E dt \in {CdnFastCall, CdnSlowCall} :
                elapsed + dt > CLOUDFRONT_TIMEOUT_SECONDS

\* C17: after delete_distribution is accepted the teardown polls
\* get_distribution with 10 seconds between polls; a successful answer keeps
\* it waiting, a NoSuchDistribution error ends it in success, and a successful
\* answer once more than 600 seconds have elapsed ends it in failure.
C17_WaitForDeletion == []WaitDeletedState /\ [][WaitDeletedStep]_vars

C17_Witness ==
  /\ "delete_timeout" \in events
  /\ "cdn_returned_false" \in events
  /\ \E i \in SentAt("delete_distribution") : sent[i].answer = "ok"

\* C18: the manual region prompt is reached only after a failed lookup, for
\* which get_s3_bucket_region returns None: a lookup that succeeds without a
\* region marker (LocationConstraint absent or empty) resolves to 'us-east-1'
\* and does not lead to the prompt.
C18_NoMarkerMeansDefaultRegion ==
  /\ pc = "manual_region" => region = NoneVal
  /\ (pc = "find_start" /\ bucketExists /\ locationConstraint \in {NoneVal, ""}
        /\ region # DefaultRegion) => region \in {StripText(r) : r \in RegionInputs}

\* The keys of listing pages in the order the paginator hands them out: page
\* by page, a page's versions before its delete markers.
RECURSIVE InDiscoveryOrder(_)
InDiscoveryOrder(pages) ==
  IF pages = <<>> THEN <<>>
  ELSE Head(pages).versions \o Head(pages).markers \o InDiscoveryOrder(Tail(pages))

\* The bulk deletes of the run, in call order, and their keys laid end to end.
BulkDeletes == SelectSeq(sent, LAMBDA r : r.op = "delete_objects")

RECURSIVE KeysOfCalls(_)
KeysOfCalls(batches) ==
  IF batches = <<>> THEN <<>> ELSE Head(batches).keys \o KeysOfCalls(Tail(batches))

CeilDiv(n, k) == (n + k - 1) \div k

\* empty_s3_bucket has returned success, or is about to, after listing the bucket.
EmptierSucceededListing ==
  /\ "listed_all" \in events
  /\ \/ pc = "empty_return" /\ result = TRUE
     \/ "empty_returned_true" \in events

\* C19: a successful empty_s3_bucket that enumerated N keys has issued
\* ceil(N/1000) bulk deletes, each but the last of exactly 1000 keys, none
\* empty and none above 1000, which laid end to end are the keys in
\* discovery order, each once.
C19_BatchesInDiscoveryOrder ==
  EmptierSucceededListing =>
    LET B == BulkDeletes
        found == InDiscoveryOrder(PagesOf(keyLayout))
        N == Len(found)
    IN /\ pc = "empty_return" => total_objects_found = N
       /\ Len(B) = CeilDiv(N, 1000)
       /\ \A i \in 1..Len(B) :
            /\ Len(B[i].keys) \in 1..1000
            /\ i < Len(B) => Len(B[i].keys) = 1000
            /\ B[i].target = bucket_name
       /\ KeysOfCalls(B) = found
       /\ Cardinality(Elems(found)) = N

C19_Witness ==
  /\ EmptierSucceededListing
  /\ keyLayout = "huge"
  /\ Len(BulkDeletes) = 3
  /\ Len(BulkDeletes[1].keys) = 1000
  /\ Len(BulkDeletes[2].keys) = 1000
  /\ Len(BulkDeletes[3].keys) = 500

\* C20: a bulk delete answered with per-object errors is the last one of the
\* run: empty_s3_bucket returns failure and success is never reported.
C20_BulkErrorsFailClosed ==
  \A i \in SentAt("delete_objects") :
    sent[i].answer = "errors" =>
      /\ i = Len(sent)
      /\ \/ pc = "empty_return" /\ result = FALSE
         \/ pc = "done" /\ "empty_returned_false" \in events /\ exitCode = "1"
      /\ "empty_returned_true" \notin events
      /\ ~bucket_emptied_successfully
      /\ ~summaryPrinted

C20_Witness ==
  /\ Len(sent) = 2
  /\ sent[1].op = "delete_objects" /\ sent[1].answer = "ok" /\ Len(sent[1].keys) = 1000
  /\ sent[2].op = "delete_objects" /\ sent[2].answer = "errors"
  /\ pc = "done"

\* C21: once more than 300 seconds have passed since empty_s3_bucket started
\* and objects are still to be deleted, it returns failure, be the batch in
\* progress a full one or the final partial one: it does not return success
\* after a final batch begun past the timeout.
C21_TimeoutAcrossAllBatches ==
  (/\ pc = "empty_return"
   /\ objects_to_delete # <<>>
   /\ S3TimedOut(elapsed)
   /\ "no_such_bucket" \notin events)
  => result = FALSE

\* The bucket did not exist when the run started and does not exist now (the
\* model creates no bucket).
AbsentAllAlong ==
  /\ ~bucketExists
  /\ \A i \in 1..Len(sent) : ~(sent[i].op = "delete_bucket" /\ sent[i].answer = "ok")

\* C22: on a bucket that does not exist, empty_s3_bucket returns success
\* without a bulk delete and delete_s3_bucket returns success.
C22_AbsentBucketIsSuccess ==
  AbsentAllAlong =>
    /\ pc = "empty_return" => result = TRUE
    /\ "empty_returned_false" \notin events
    /\ BulkDeletes = <<>>
    /\ \A i \in SentAt("delete_bucket") : sent[i].answer = "NoSuchBucket"
    /\ (Issued("delete_bucket") /\ pc \in {"summary", "done"}) =>
         bucket_deleted_successfully

C22_Witness ==
  /\ AbsentAllAlong
  /\ "no_such_bucket" \in events
  /\ "empty_returned_true" \in events
  /\ Issued("delete_bucket")
  /\ bucket_deleted_successfully
  /\ pc = "done"

\* The answers to delete_bucket, in call order.
DeleteBucketAnswers ==
  [i \in 1..Len(SelectSeq(sent, LAMBDA r : r.op = "delete_bucket")) |->
     SelectSeq(sent, LAMBDA r : r.op = "delete_bucket")[i].answer]

\* What holds in each state of the waiter's loop and after delete_s3_bucket.
BucketWaitState ==
  /\ pc = "delete_wait" =>
       /\ DeleteBucketAnswers = <<"ok">>
       /\ num_attempts < MaxAttempts
       /\ elapsed = Delay * num_attempts
       /\ ~bucket_deleted_successfully
  /\ bucket_deleted_successfully =>
       \/ "absence_confirmed" \in events /\ DeleteBucketAnswers = <<"ok">>
       \/ DeleteBucketAnswers = <<"NoSuchBucket">>
  /\ (pc \in {"summary", "done"} /\ DeleteBucketAnswers # <<>>) =>
       (bucket_deleted_successfully <=>
          \/ "absence_confirmed" \in events
          \/ DeleteBucketAnswers = <<"NoSuchBucket">>)
  /\ events \cap {"wait_exhausted", "waiter_error"} # {} =>
       /\ ~bucket_deleted_successfully
       /\ "absence_confirmed" \notin events
       /\ pc \in {"summary", "done"}
       /\ pc = "done" => exitCode = "1"
  /\ (DeleteBucketAnswers # <<>>
        /\ DeleteBucketAnswers[1] \in {"BucketNotEmpty", "AccessDenied"}) =>
       /\ ~bucket_deleted_successfully
       /\ ~Issued("head_bucket")
       /\ pc \in {"summary", "done"}
       /\ pc = "done" => exitCode = "1"

\* A poll of the waiter ends the wait in success when it is answered that the
\* bucket is absent, in failure when it is answered an error or is the 20th
\* poll; else the waiter sleeps 15 seconds and polls again.
BucketWaitStep ==
  pc = "delete_wait" =>
    /\ Issued("head_bucket")'
    /\ pc' = "delete_wait" =>
         (num_attempts' = num_attempts + 1 /\ elapsed' = elapsed + 15)
    /\ pc' # "delete_wait" =>
         /\ pc' = "summary"
         /\ "wait_exhausted" \in events' => num_attempts = 19
         /\ bucket_deleted_successfully' <=> "absence_confirmed" \in events'
         /\ ~bucket_deleted_successfully' =>
              events' \cap {"wait_exhausted", "waiter_error"} # {}

\* C23: delete_s3_bucket returns success only if the store confirmed that the
\* bucket does not exist: a poll of the waiter (20 polls at most, 15 seconds
\* apart) was answered so, or delete_bucket itself was; with the polls
\* exhausted, or delete_bucket answered 'not empty' or another error, it
\* returns failure.
C23_SuccessOnlyWhenAbsenceConfirmed == []BucketWaitState /\ [][BucketWaitStep]_vars

C23_Witness ==
  /\ "wait_exhausted" \in events
  /\ DeleteBucketAnswers = <<"ok">>
  /\ ~bucket_deleted_successfully
  /\ pc = "done"
  /\ exitCode = "1"

\* The three stages of the run succeeded: the teardown returned success or
\* was skipped for lack of a distribution, the emptier returned success, and
\* the store confirmed that the bucket is absent.
StagesSucceeded ==
  /\ \/ "cdn_returned_true" \in events
     \/ cf_info = <<>> /\ "cdn_returned_false" \notin events
  /\ "empty_returned_true" \in events
  /\ \/ "absence_confirmed" \in events
     \/ DeleteBucketAnswers = <<"NoSuchBucket">>

\* The operator refused at the confirmation gate.
RefusedAtGate ==
  shown # <<>> /\ ~confirmed /\ "interrupted" \notin events

\* The run met a failure it did not resolve: no bucket name, no region, a
\* failed teardown, a failed emptying, a failed bucket deletion.
UnresolvedFailure ==
  \/ bucket_name = NoneVal
  \/ ~Truthy(region)
  \/ "cdn_returned_false" \in events
  \/ "empty_returned_false" \in events
  \/ DeleteBucketAnswers # <<>> /\ ~bucket_deleted_successfully

\* C24, as claimed: the process ends with status 0 exactly when the three
\* stages succeeded or the operator refused at the confirmation gate.
C24_ExitZeroOnSuccessOrRefusal ==
  pc = "done" => (exitCode = "0" <=> (StagesSucceeded \/ RefusedAtGate))

\* C24, amended: the process ends with status 0 exactly when the three stages
\* succeeded, the operator refused at the confirmation gate or the operator
\* interrupted the run; a run that is not interrupted and ends with an
\* unresolved failure ends with status 1.
C24_ExitZeroOnSuccessOrCancellation ==
  pc = "done" =>
    /\ exitCode \in {"0", "1"}
    /\ exitCode = "0" <=>
         (StagesSucceeded \/ RefusedAtGate \/ "interrupted" \in events)
    /\ (UnresolvedFailure /\ "interrupted" \notin events) => exitCode = "1"
    /\ (StagesSucceeded /\ "interrupted" \notin events) => summaryPrinted

C24_Witness ==
  /\ pc = "done"
  /\ exitCode = "1"
  /\ summaryPrinted
  /\ "cdn_returned_true" \in events
  /\ "empty_returned_true" \in events
  /\ "wait_exhausted" \in events

\* A stage of the run failed after the confirmation gate.
FatalAfterGate ==
  \/ "cdn_returned_false" \in events
  \/ "empty_returned_false" \in events
  \/ DeleteBucketAnswers # <<>> /\ pc \in {"summary", "done"}
       /\ ~bucket_deleted_successfully

\* C25: a run in which the teardown, the emptying or the bucket deletion
\* failed ends only after the summary of the three stages was printed.
C25_FailureHaltsAfterSummary ==
  (pc = "done" /\ FatalAfterGate) => summaryPrinted

\* The run is over, was confirmed and not interrupted, and every collaborator
\* call of it succeeded: the listings and the reads, each mutating call, and
\* the wait for the bucket's absence.
ConfirmedRunWithoutError ==
  /\ pc = "done"
  /\ confirmed
  /\ "interrupted" \notin events
  /\ \A i \in 1..Len(sent) : sent[i].answer = "ok"
  /\ events \cap {"list_error", "s3_error", "no_such_bucket", "poll_error",
                   "waiter_error", "wait_exhausted"} = {}

\* C26: for a bucket of fewer than 1000 keys with no distribution in front
\* of it, a confirmed run whose collaborator calls all succeed makes no call
\* of the CDN teardown, deletes every key in a single bulk delete (none for
\* an empty bucket), deletes the bucket and ends with the three outcomes
\* true, the summary printed and exit status 0.
C26_NoDistributionScenario ==
  (/\ ConfirmedRunWithoutError
   /\ HoldersOf(ExpectedDomain(TheBucket, RegionOfConstraint(locationConstraint))) = {}
   /\ keyLayout \in {"empty", "small"})
  => (/\ \A c \in calls : c[1] \notin TeardownOps
      /\ cf_info = <<>>
      /\ cloudfront_deleted_successfully
      /\ bucket_emptied_successfully
      /\ bucket_deleted_successfully
      /\ Len(BulkDeletes) = (IF keyLayout = "empty" THEN 0 ELSE 1)
      /\ \A i \in 1..Len(BulkDeletes) :
           Elems(BulkDeletes[i].keys) = KeysOf(keyLayout)
      /\ bucketKeys = {}
      /\ ~bucketExists
      /\ DeleteBucketAnswers = <<"ok">>
      /\ summaryPrinted
      /\ exitCode = "0")

C26_Witness ==
  /\ ConfirmedRunWithoutError
  /\ HoldersOf(ExpectedDomain(TheBucket, RegionOfConstraint(locationConstraint))) = {}
  /\ Len(ListedIds) > 0
  /\ keyLayout = "small"
  /\ Len(BulkDeletes) = 1
  /\ Len(BulkDeletes[1].keys) = SmallKeys + 1
  /\ exitCode = "0"

\* C27: delete_cloudfront_distribution, once entered, returns: each of its
\* two waits ends, be the distribution never seen 'Deployed' nor ever
\* reported absent.
C27_TeardownTerminates ==
  (pc \in CfPcs) ~>
    (pc \notin CfPcs /\ events \cap {"cdn_returned_true", "cdn_returned_false"} # {})

C27_Witness ==
  /\ pc = "cf_return"
  /\ result = FALSE
  /\ "delete_timeout" \in events
  /\ dists[distribution_id].present = "deleting"
  /\ elapsed > CLOUDFRONT_TIMEOUT_SECONDS

\* The search of a list of distributions whose configurations are all read:
\* the only one that matches, with its token, or none.
SearchOf(ids) ==
  LET matches == SelectSeq(ids, LAMBDA d : d \in Matching)
  IN IF Len(matches) = 1 THEN <<matches[1], ETag(dists[matches[1]].version)>> ELSE <<>>

\* C29: a distribution whose configuration could not be read is skipped: the
\* search goes on to the end of the listing (unless it meets an ambiguity),
\* does not return the skipped distribution, and returns what the search of
\* the listing without the skipped distributions returns.
C29_UnreadableConfigIsSkipped ==
  (pc = "find_return" /\ "list_error" \notin events) =>
    /\ result = SearchOf(SelectSeq(ListedIds, LAMBDA d : d \notin skipped))
    /\ result # <<>> => result[1] \notin skipped
    /\ "ambiguous" \notin events => Examined = Elems(ListedIds)
    /\ skipped \subseteq Examined

C29_Witness ==
  /\ pc = "find_return"
  /\ "list_error" \notin events
  /\ Cardinality(Matching) = 2
  /\ Cardinality(Matching \cap skipped) = 1
  /\ result # <<>>
  /\ Examined = Elems(ListedIds)
  /\ ListedIds[1] \in skipped

\* C30: the deployment's wait for the new distribution to be 'Deployed'
\* ends by itself, be the status never reported 'Deployed'.
C30_DeployWaitIsBounded ==
  (pc = "deploy_wait") ~> (pc # "deploy_wait")

\* The stages of the cleanup that are completed, as the collaborators hold
\* them.
CompletedStages ==
  (IF \A d \in DistsWithOrigin(Endpoint(locationConstraint)) : ~dists[d].enabled
     THEN {"distribution_disabled"} ELSE {})
    \cup (IF DistsWithOrigin(Endpoint(locationConstraint)) = {}
            THEN {"distribution_gone"} ELSE {})
    \cup (IF ~bucketExists \/ bucketKeys = {} THEN {"bucket_emptied"} ELSE {})
    \cup (IF ~bucketExists THEN {"bucket_deleted"} ELSE {})

\* The distribution is gone and the bucket is deleted.
AllGone == ~bucketExists /\ DistsWithOrigin(Endpoint(locationConstraint)) = {}

\* What a run records of a collaborator that failed it, or of the operator
\* who interrupted it.
AdverseEvents ==
  {"interrupted", "list_error", "s3_error", "bulk_errors", "poll_error", "waiter_error"}

\* The answers to a mutating call that tell the state of the resource.
PlainAnswers == {"ok", "NoSuchDistribution", "NoSuchBucket", "BucketNotEmpty"}

\* A step of a run for the same bucket in which the operator confirms and
\* does not interrupt, and the collaborator has propagated the changes and
\* answers without an error of its own and without a conflict.
Cooperative ==
  /\ (events' \ events) \cap AdverseEvents = {}
  /\ pc = "start" => bucket_name' = TheBucket
  /\ (pc = "get_region" /\ bucketExists) =>
       region' = RegionOfConstraint(locationConstraint)
  /\ pc = "manual_region" => region' = RegionOfConstraint(locationConstraint)
  /\ pc = "find_item" => skipped' = skipped
  /\ pc = "confirm" => confirm_deletion(typed')
  /\ (pc = "cf_get_config" /\ pc' = "cf_return") => result'
  /\ Len(sent') > Len(sent) => sent'[Len(sent')].answer \in PlainAnswers
  /\ pc = "cf_wait_disabled" => pc' = "cf_delete"
  /\ pc = "cf_wait_deleted" => "gone_seen" \in events'
  /\ pc = "delete_wait" => "absence_confirmed" \in events'

\* In every state a cooperative step is possible.
CooperationPossible == ENABLED <<NextRerun /\ Cooperative>>_stepVars

\* C28: over the runs of the program for one bucket, interrupted by the
\* operator at any point and started again, no step that changes what the
\* collaborators hold takes a completed stage back; and if from some run on
\* the operator confirms without interrupting and the collaborator propagates
\* the changes and raises no error, then from some point on the distribution
\* is gone and the bucket is emptied and deleted.
C28_RerunsMakeProgress ==
  /\ [][worldVars' # worldVars => CompletedStages \subseteq CompletedStages']_vars
  /\ (<>[][Cooperative]_stepVars) => <>[]AllGone

\* A run that found the distribution disabled, as an earlier run had left it,
\* has deleted it without disabling it and has ended with everything gone.
C28_Witness ==
  /\ pc = "done"
  /\ exitCode = "0"
  /\ summaryPrinted
  /\ AllGone
  /\ "found_disabled" \in events
  /\ \A d \in DistIds : <<"update_distribution", d>> \notin calls
  /\ \E i \in 1..Len(sent) : sent[i].op = "delete_distribution" /\ sent[i].answer = "ok"

\* C33: whenever the emptier is about to ask for a listing page, or has been
\* told that no page is left, fewer than BatchSize (1000) keys are pending in
\* its collection.
C33_PendingBelowBatchSize ==
  pc \in {"empty_page", "empty_final"} => Len(objects_to_delete) < BatchSize

\* A full page has been received and its batch deleted, and another page is
\* about to be asked for.
C33_Witness ==
  /\ pc = "empty_page"
  /\ total_objects_found >= BatchSize
  /\ PagesLeft(pageCursor) # {}
  /\ \E i \in SentAt("delete_objects") :
       Len(sent[i].keys) = BatchSize /\ sent[i].answer = "ok"

\* C34: in every state the outcome flags are ordered, the bucket deleted only
\* if emptied and emptied only if the distribution is deleted; and once the
\* summary is printed the process ends with status 0 exactly when the three
\* flags are true.
C34_OutcomeFlagsOrdered ==
  /\ bucket_deleted_successfully => bucket_emptied_successfully
  /\ bucket_emptied_successfully => cloudfront_deleted_successfully
  /\ summaryPrinted =>
       (exitCode = "0" <=> (/\ cloudfront_deleted_successfully
                            /\ bucket_emptied_successfully
                            /\ bucket_deleted_successfully))

\* The summary of a run that emptied the bucket and could not confirm its
\* deletion.
C34_Witness ==
  /\ summaryPrinted
  /\ exitCode = "1"
  /\ cloudfront_deleted_successfully
  /\ bucket_emptied_successfully
  /\ ~bucket_deleted_successfully
  /\ "wait_exhausted" \in events

\* The collaborator answered a call of the teardown that the distribution
\* does not exist: the read of the configuration, the update, the delete or a
\* poll of the wait for deletion.
AbsenceAnswered ==
  \/ events \cap {"absent_on_read", "gone_seen"} # {}
  \/ \E i \in 1..Len(sent) :
       /\ sent[i].op \in {"update_distribution", "delete_distribution"}
       /\ sent[i].answer = "NoSuchDistribution"

\* C35: delete_cloudfront_distribution returns True only in a run in which
\* the collaborator answered one of its calls that the distribution does not
\* exist; an accepted delete request is not enough.
C35_SuccessOnlyOnAbsenceAnswer ==
  ((pc = "cf_return" /\ result) \/ "cdn_returned_true" \in events) => AbsenceAnswered

\* The delete request was accepted and a later poll was answered that the
\* distribution does not exist: the teardown has returned True.
C35_Witness ==
  /\ "cdn_returned_true" \in events
  /\ "gone_seen" \in events
  /\ \E i \in 1..Len(sent) : sent[i].op = "delete_distribution" /\ sent[i].answer = "ok"

\* C37: when a poll of the wait for disablement is answered that the
\* distribution does not exist, the teardown returns False and no delete is
\* requested; the same answer to the read of the configuration, to the update
\* or to the delete makes it return True.
C37_AbsentWhileDisablingIsFailure ==
  /\ "absent_on_disable_poll" \in events =>
       /\ TeardownFailed
       /\ SentAt("delete_distribution") = {}
       /\ ~Issued("delete_distribution")
  /\ (\/ "absent_on_read" \in events
      \/ \E i \in 1..Len(sent) :
           /\ sent[i].op \in {"update_distribution", "delete_distribution"}
           /\ sent[i].answer = "NoSuchDistribution") => TeardownSucceeded

\* The update was accepted, the distribution was removed during the wait and
\* the run has ended on the failure.
C37_Witness ==
  /\ "absent_on_disable_poll" \in events
  /\ \E i \in 1..Len(sent) : sent[i].op = "update_distribution" /\ sent[i].answer = "ok"
  /\ pc = "done"
  /\ exitCode = "1"

\* C36: in a round of the wait for disablement the status comes first: the
\* wait goes on to delete_distribution only on a poll that finds 'Deployed',
\* and does so however long the wait has lasted; a poll that finds 'Deployed'
\* never times out and never waits again; the timeout ends the wait only on a
\* poll that finds another status after more than 600 seconds.
C36_StatusBeforeDeadline ==
  [][pc = "cf_wait_disabled" =>
       LET polled == dists'[distribution_id] IN
         /\ pc' = "cf_delete" => polled.status = "Deployed"
         /\ (polled.status = "Deployed" /\ polled.present # "gone") =>
              /\ pc' \in {"cf_delete", "cf_return"}
              /\ "disable_timeout" \notin events'
              /\ pc' = "cf_return" => result' = FALSE
         /\ "disable_timeout" \in events' =>
              /\ polled.status # "Deployed"
              /\ elapsed' > CLOUDFRONT_TIMEOUT_SECONDS
              /\ pc' = "cf_return"
         /\ pc' = "cf_wait_disabled" =>
              /\ polled.status # "Deployed"
              /\ elapsed' <= CLOUDFRONT_TIMEOUT_SECONDS + POLLING_INTERVAL_SECONDS]_vars

\* The poll that found 'Deployed' was answered after more than 600 seconds:
\* the delete is about to be requested.
C36_Witness ==
  /\ pc = "cf_delete"
  /\ elapsed > CLOUDFRONT_TIMEOUT_SECONDS
  /\ dists[distribution_id].status = "Deployed"
  /\ "disable_timeout" \notin events
  /\ \E i \in 1..Len(sent) : sent[i].op = "update_distribution" /\ sent[i].answer = "ok"

\* C38: once the listing of the distributions has failed, on whatever page,
\* the search returns None, a match recorded before included; the gate names
\* the bucket only, no call of the teardown is issued, the teardown counts as
\* done, and the confirmed run goes on to empty the bucket.
C38_ListErrorSkipsTeardown ==
  "list_error" \in events =>
    /\ pc = "find_return" => result = <<>>
    /\ pc \notin FindPcs => cf_info = <<>>
    /\ pc \notin CfPcs
    /\ \A c \in calls : c[1] \notin TeardownOps
    /\ shown # <<>> => shown = <<bucket_name, NoneVal>>
    /\ confirmed =>
         /\ pc \in {"main_cloudfront", "main_empty", "empty_start", "empty_page",
                     "empty_batch", "empty_final", "empty_return", "main_delete",
                     "delete_wait", "summary", "done"}
         /\ pc # "main_cloudfront" => cloudfront_deleted_successfully
         /\ pc = "done" => Issued("get_bucket_versioning")

\* The listing failed, the operator confirmed, and the bucket was emptied and
\* deleted in front of a distribution that still serves it.
C38_Witness ==
  /\ "list_error" \in events
  /\ pc = "done"
  /\ exitCode = "0"
  /\ bucket_deleted_successfully
  /\ ~bucketExists
  /\ \E d \in DistsWithOrigin(Endpoint(locationConstraint)) : dists[d].enabled

\* The origins of distribution d that equal the domain searched for.
MatchingOriginsOf(d) ==
  {i \in 1..Len(dists[d].origins) : dists[d].origins[i] = target_origin_domain}

\* C39: when the only distribution that matches has two or more origins equal
\* to the target domain, the search that read the listing to its end and the
\* distribution's configuration counts one match and returns that
\* distribution: no ambiguity is reported.
C39_ManyOriginsOneMatch ==
  (pc = "find_return" /\ "list_error" \notin events) =>
    \A d \in Matching :
      (/\ Matching = {d}
       /\ d \notin skipped
       /\ Cardinality(MatchingOriginsOf(d)) >= 2) =>
        /\ result = <<d, ETag(dists[d].version)>>
        /\ distribution_count = 1
        /\ "ambiguous" \notin events

\* The search ends on a listing of several distributions: one of them names
\* the target domain in two origins and is returned.
C39_Witness ==
  /\ pc = "find_return"
  /\ result # <<>>
  /\ Cardinality(MatchingOriginsOf(result[1])) = 2
  /\ Len(ListedIds) >= 2

\* The positions of the polling waits: for the disablement, for the deletion
\* of the distribution, for the absence of the bucket.
WaitPcs == {"cf_wait_disabled", "cf_wait_deleted", "delete_wait"}

\* C40: an interrupt by the operator during a polling wait ends the process
\* with status 0: no collaborator call follows, nothing the collaborators
\* hold is changed, no outcome flag is set and the summary is not printed;
\* and a run that was interrupted has ended with status 0 without a summary.
C40_InterruptEndsRunQuietly ==
  /\ []("interrupted" \in events =>
          (pc = "done" /\ exitCode = "0" /\ ~summaryPrinted))
  /\ [][(pc \in WaitPcs /\ "interrupted" \in events' /\ "interrupted" \notin events) =>
          /\ pc' = "done"
          /\ exitCode' = "0"
          /\ calls' = calls
          /\ sent' = sent
          /\ worldVars' = worldVars
          /\ summaryPrinted' = summaryPrinted
          /\ <<cloudfront_deleted_successfully, bucket_emptied_successfully,
               bucket_deleted_successfully>>' =
               <<cloudfront_deleted_successfully, bucket_emptied_successfully,
                 bucket_deleted_successfully>>]_vars

\* The run was interrupted after the disable update was accepted and a poll
\* was made: it has ended with status 0, the distribution left disabled, in
\* progress and not deleted, the bucket untouched.
C40_Witness ==
  /\ "interrupted" \in events
  /\ pc = "done"
  /\ exitCode = "0"
  /\ ~summaryPrinted
  /\ \E i \in 1..Len(sent) : sent[i].op = "update_distribution" /\ sent[i].answer = "ok"
  /\ \A i \in 1..Len(sent) : sent[i].op # "delete_distribution"
  /\ <<"get_distribution", distribution_id>> \in calls
  /\ "disable_timeout" \notin events
  /\ dists[distribution_id].status = "InProgress"
  /\ dists[distribution_id].present = "yes"
  /\ bucketExists

\* The steps of the deployment by their calls, in main's order.
DeployOps ==
  <<"create_bucket", "put_public_access_block", "put_bucket_website",
    "put_bucket_policy", "upload_file", "create_distribution">>

StepRank(op) == CHOOSE i \in 1..Len(DeployOps) : DeployOps[i] = op

\* The calls of the deployment among those sent, by their places.
DeployCalls == {i \in 1..Len(sent) : sent[i].op \in Elems(DeployOps)}

\* The call create_bucket that gave the run its bucket: created, or confirmed
\* as owned.
BucketGiven ==
  {i \in DeployCalls : /\ sent[i].op = "create_bucket"
                        /\ sent[i].answer \in {"ok", "BucketAlreadyOwnedByYou"}}

\* C31: once create_bucket has returned true, the bucket name main holds is
\* the name of the bucket that was created or confirmed as owned, also when
\* that was another name the operator gave after a collision, and every
\* later step's call is about that bucket.
C31_NameHeldIsBucketCreated ==
  \A i \in BucketGiven :
    /\ bucket_name = sent[i].target
    /\ \A j \in DeployCalls : j > i => sent[j].target = sent[i].target

\* A step has failed: it made calls and none of them succeeded.  (The step
\* create_bucket succeeds with its last call, a retry after a collision; the
\* upload is taken to fail when no file at all could be stored.)
StepFailed(op) ==
  /\ \E i \in DeployCalls : sent[i].op = op
  /\ \A i \in DeployCalls :
       sent[i].op = op => sent[i].answer \notin {"ok", "BucketAlreadyOwnedByYou"}

\* C32: the steps run in main's order, and a step that fails is the last:
\* after a step has failed, no call of a later step is made.
C32_StepsInOrderStopAtFailure ==
  \A i \in DeployCalls : \A j \in DeployCalls :
    i < j =>
      /\ StepRank(sent[i].op) <= StepRank(sent[j].op)
      /\ (StepFailed(sent[i].op) => StepRank(sent[j].op) <= StepRank(sent[i].op))

=============================================================================
